---- MODULE Spec2Model ----
(***************************************************************************)
(* Model of 'ask' (fabianvf/ask), the latest revision of main.go           *)
(* (src/unnamed/part_000): prompt assembly and truncation, the pending     *)
(* context file, the session store, command extraction and the            *)
(* interactive controller.                                                 *)
(*                                                                         *)
(* A Go string is modelled as a sequence of one-character strings, so     *)
(* len(s) is Len(s), s[:n] is SubSeq(s, 1, n) and s + t is s \o t.         *)
(***************************************************************************)
EXTENDS Integers, Sequences, FiniteSets, TLC

(***************************************************************************)
(* String literals of the source.                                          *)
(***************************************************************************)
\* 'Additional Context:\n' (20 characters)
ContextMarker ==
  <<"A","d","d","i","t","i","o","n","a","l"," ","C","o","n","t","e","x","t",":","\n">>

\* '\n\nAdditional Context:\n' (22 characters)
AskContextHeading ==
  <<"\n","\n","A","d","d","i","t","i","o","n","a","l"," ","C","o","n","t","e","x","t",
    ":","\n">>

\* '\n---\nCommand: ' (14 characters)
EntryHeader ==
  <<"\n","-","-","-","\n","C","o","m","m","a","n","d",":"," ">>

\* 'Refine the following response with the additional context:\n\nORIGINAL PROMPT:\n' (77 characters)
RefineIntro ==
  <<"R","e","f","i","n","e"," ","t","h","e"," ","f","o","l","l","o","w","i","n","g"," ",
    "r","e","s","p","o","n","s","e"," ","w","i","t","h"," ","t","h","e"," ","a","d","d",
    "i","t","i","o","n","a","l"," ","c","o","n","t","e","x","t",":","\n","\n","O","R",
    "I","G","I","N","A","L"," ","P","R","O","M","P","T",":","\n">>

\* '\n\nPREVIOUS PROMPT:\n' (19 characters)
RefinePrevPrompt ==
  <<"\n","\n","P","R","E","V","I","O","U","S"," ","P","R","O","M","P","T",":","\n">>

\* '\n\nPREVIOUS RESPONSE:\n' (21 characters)
RefinePrevResponse ==
  <<"\n","\n","P","R","E","V","I","O","U","S"," ","R","E","S","P","O","N","S","E",":",
    "\n">>

\* '\n\nPREVIOUS COMMAND RUN OUTPUT:\n' (31 characters)
RefineRunOutput ==
  <<"\n","\n","P","R","E","V","I","O","U","S"," ","C","O","M","M","A","N","D"," ","R",
    "U","N"," ","O","U","T","P","U","T",":","\n">>

\* '\n\nADDITIONAL CONTEXT:\n' (22 characters)
RefineContext ==
  <<"\n","\n","A","D","D","I","T","I","O","N","A","L"," ","C","O","N","T","E","X","T",
    ":","\n">>

\* '\n\nREFINEMENT CONTEXT:\n' (22 characters)
RefineRefinement ==
  <<"\n","\n","R","E","F","I","N","E","M","E","N","T"," ","C","O","N","T","E","X","T",
    ":","\n">>

\* 'Refine this answer with the following context:\nORIGINAL PROMPT:\n' (64 characters)
IRefineIntro ==
  <<"R","e","f","i","n","e"," ","t","h","i","s"," ","a","n","s","w","e","r"," ","w","i",
    "t","h"," ","t","h","e"," ","f","o","l","l","o","w","i","n","g"," ","c","o","n","t",
    "e","x","t",":","\n","O","R","I","G","I","N","A","L"," ","P","R","O","M","P","T",
    ":","\n">>

\* '\nANSWER:\n' (9 characters)
IRefineAnswer ==
  <<"\n","A","N","S","W","E","R",":","\n">>

\* '\nRUN OUTPUT:\n' (13 characters)
IRefineRunOutput ==
  <<"\n","R","U","N"," ","O","U","T","P","U","T",":","\n">>

\* '\nADDITIONAL CONTEXT:\n' (21 characters)
IRefineContext ==
  <<"\n","A","D","D","I","T","I","O","N","A","L"," ","C","O","N","T","E","X","T",":",
    "\n">>

\* '\nREFINEMENT:\n' (13 characters)
IRefineRefinement ==
  <<"\n","R","E","F","I","N","E","M","E","N","T",":","\n">>

(***************************************************************************)
(* Go string primitives used by the source.                                *)
(***************************************************************************)
\* s[:n]
Prefix(s, n) == SubSeq(s, 1, n)

\* s[n:]
Suffix(s, n) == SubSeq(s, n + 1, Len(s))

\* sub occurs in s at the 0-based offset i
OccursAt(s, sub, i) ==
  /\ i >= 0
  /\ i + Len(sub) <= Len(s)
  /\ SubSeq(s, i + 1, i + Len(sub)) = sub

\* strings.Index(s, sub): the offset of the first occurrence, or -1
Index(s, sub) ==
  IF \E i \in 0..(Len(s) - Len(sub)) : OccursAt(s, sub, i)
  THEN CHOOSE i \in 0..(Len(s) - Len(sub)) :
         /\ OccursAt(s, sub, i)
         /\ \A j \in 0..(i - 1) : ~OccursAt(s, sub, j)
  ELSE -1

\* strings.HasPrefix(s, sub)
HasPrefix(s, sub) == OccursAt(s, sub, 0)

\* strings.TrimPrefix(s, sub)
TrimPrefix(s, sub) == IF HasPrefix(s, sub) THEN Suffix(s, Len(sub)) ELSE s

\* the white space strings.TrimSpace removes
IsSpace(c) == c \in {" ", "\t", "\n", "\r"}

RECURSIVE TrimLeft(_)
TrimLeft(s) == IF s # <<>> /\ IsSpace(Head(s)) THEN TrimLeft(Tail(s)) ELSE s

RECURSIVE TrimRight(_)
TrimRight(s) ==
  IF s # <<>> /\ IsSpace(s[Len(s)]) THEN TrimRight(SubSeq(s, 1, Len(s) - 1)) ELSE s

\* strings.TrimSpace(s)
TrimSpace(s) == TrimRight(TrimLeft(s))

\* strings.Split(s, "\n")
RECURSIVE Split(_)
Split(s) ==
  LET i == Index(s, <<"\n">>) IN
  IF i = -1 THEN <<s>> ELSE <<Prefix(s, i)>> \o Split(Suffix(s, i + 1))

(***************************************************************************)
(* Command extraction.                                                     *)
(***************************************************************************)
\* the grave accent (U+0060); a TLA+ string cannot hold that character, so
\* the model writes it as this one symbol
Backtick == "GRAVE"

\* the code fence marker, three grave accents
Fence == <<Backtick, Backtick, Backtick>>

DollarMarker == <<"$", " ">>

\* the loop of extractCodeBlock from line i on
RECURSIVE codeBlockFrom(_, _, _, _)
codeBlockFrom(lines, i, inBlock, blockContent) ==
  IF i > Len(lines) THEN <<>>
  ELSE LET line    == lines[i]
           trimmed == TrimSpace(line)
       IN  IF HasPrefix(trimmed, Fence)
           THEN IF inBlock THEN blockContent
                ELSE codeBlockFrom(lines, i + 1, TRUE, blockContent)
           ELSE IF inBlock
                THEN codeBlockFrom(lines, i + 1, TRUE, blockContent \o line \o <<"\n">>)
                ELSE codeBlockFrom(lines, i + 1, FALSE, blockContent)

extractCodeBlock(lines) == codeBlockFrom(lines, 1, FALSE, <<>>)

\* a variant of the "$ " scan that takes the marker anywhere in the line
RECURSIVE dollarCommandsFrom_anywhere(_, _)
dollarCommandsFrom_anywhere(lines, i) ==
  IF i > Len(lines) THEN <<>>
  ELSE LET at == Index(lines[i], DollarMarker) IN
       (IF at > -1 THEN <<TrimSpace(Suffix(lines[i], at + 2))>> ELSE <<>>)
         \o dollarCommandsFrom_anywhere(lines, i + 1)

\* extractCommand: the "$ " lines, in order, from line i on
RECURSIVE dollarCommandsFrom(_, _)
dollarCommandsFrom(lines, i) ==
  IF i > Len(lines) THEN <<>>
  ELSE LET trim == TrimSpace(lines[i]) IN
       (IF HasPrefix(trim, DollarMarker) THEN <<TrimPrefix(trim, DollarMarker)>> ELSE <<>>)
         \o dollarCommandsFrom(lines, i + 1)

extractCommand(answer) ==
  LET lines     == Split(answer)
      codeBlock == extractCodeBlock(lines)
      commands  == dollarCommandsFrom(lines, 1)
  IN  IF codeBlock # <<>> THEN TrimSpace(codeBlock)
      ELSE IF Len(commands) > 0 THEN commands[1]
      ELSE <<>>

\* a variant of parseCommandLine that strips the "$ " marker inside a block too
parseCommandLine_stripInBlock(line, inBlock) ==
  LET trimmed == TrimSpace(line) IN
  IF trimmed = <<>> THEN <<>>
  ELSE IF inBlock /\ HasPrefix(trimmed, <<"#">>) THEN <<>>
  ELSE IF HasPrefix(trimmed, DollarMarker) THEN TrimPrefix(trimmed, DollarMarker)
  ELSE IF inBlock THEN trimmed
  ELSE <<>>

\* a variant of parseCommandLine that takes the comment lines of a block
parseCommandLine_keepComments(line, inBlock) ==
  LET trimmed == TrimSpace(line) IN
  IF trimmed = <<>> THEN <<>>
  ELSE IF inBlock THEN trimmed
       ELSE IF HasPrefix(trimmed, DollarMarker) THEN TrimPrefix(trimmed, DollarMarker)
            ELSE <<>>

parseCommandLine(line, inBlock) ==
  LET trimmed == TrimSpace(line) IN
  IF trimmed = <<>> THEN <<>>
  ELSE IF inBlock
       THEN IF HasPrefix(trimmed, <<"#">>) THEN <<>> ELSE trimmed
       ELSE IF HasPrefix(trimmed, DollarMarker) THEN TrimPrefix(trimmed, DollarMarker)
            ELSE <<>>

\* extractCommands, end of a code block: the commands of the block lines
RECURSIVE blockCommands(_, _)
blockCommands(blockLines, k) ==
  IF k > Len(blockLines) THEN <<>>
  ELSE LET cmd == parseCommandLine(blockLines[k], TRUE) IN
       (IF cmd # <<>> THEN <<cmd>> ELSE <<>>) \o blockCommands(blockLines, k + 1)

\* the loop of extractCommands from line i on
RECURSIVE commandsFrom(_, _, _, _, _)
commandsFrom(lines, i, inBlock, blockLines, commands) ==
  IF i > Len(lines) THEN commands
  ELSE LET line    == lines[i]
           trimmed == TrimSpace(line)
       IN  IF HasPrefix(trimmed, Fence)
           THEN IF inBlock
                THEN commandsFrom(lines, i + 1, FALSE, <<>>,
                                  commands \o blockCommands(blockLines, 1))
                ELSE commandsFrom(lines, i + 1, TRUE, <<>>, commands)
           ELSE IF inBlock
                THEN commandsFrom(lines, i + 1, TRUE, Append(blockLines, line), commands)
                ELSE LET cmd == parseCommandLine(trimmed, FALSE) IN
                     commandsFrom(lines, i + 1, FALSE, blockLines,
                                  IF cmd # <<>> THEN Append(commands, cmd) ELSE commands)

extractCommands(answer) == commandsFrom(Split(answer), 1, FALSE, <<>>, <<>>)

(***************************************************************************)
(* Program constants and bounds of the model.                              *)
(***************************************************************************)
\* charsPerToken = 4
charsPerToken == 4

\* maxTokens = 1000000 when the configuration sets none
DefaultMaxTokens == 1000000

\* the configured max_tokens values explored by the truncation harness
MaxTokens == 47

\* a configured max_tokens that a prompt with one context entry exceeds
SmallMaxTokens == 6

\* the longest base prompt of the truncation harness
MaxBodyLen == 2

\* the longest command output of a context entry in the truncation harness
MaxOutLen == 2

\* the seconds the clock can show: at most MaxClock sessions are created
MaxClock == 2

\* the context entries recorded in one behaviour
MaxContext == 2

\* the invocations and interactive command lines of one behaviour
MaxOps == 4

(***************************************************************************)
(* Prompt assembly and truncation.                                         *)
(***************************************************************************)
\* "\n---\nCommand: " + cmdStr + "\n" + output + "\n"
contextEntry(cmdStr, output) == EntryHeader \o cmdStr \o <<"\n">> \o output \o <<"\n">>

\* a variant of askPrompt that leaves out the blank line before the heading
askPrompt_noSeparator(prompt, pending) ==
  IF pending # <<>> THEN prompt \o ContextMarker \o pending ELSE prompt

\* handleAsk: the pending context is appended under the heading
askPrompt(prompt, pending) ==
  IF pending # <<>> THEN prompt \o AskContextHeading \o pending ELSE prompt

\* a variant of truncatePrefix that cuts one character late
truncatePrefix_offByOne(text, maxChars) ==
  IF Len(text) > maxChars THEN Prefix(text, maxChars + 1) ELSE text

\* a variant of truncatePrefix that never cuts
truncatePrefix_never(text, maxChars) == text

\* the plain cut used by handleRefine and handleInteractive
truncatePrefix(text, maxChars) ==
  IF Len(text) > maxChars THEN Prefix(text, maxChars) ELSE text

\* a variant of truncateAsk that, over budget, drops the whole context section
truncateAsk_headingCut(prompt, maxChars) ==
  IF Len(prompt) > maxChars
  THEN IF Index(prompt, ContextMarker) > -1
       THEN Prefix(prompt, Index(prompt, ContextMarker))
       ELSE Prefix(prompt, maxChars)
  ELSE prompt

\* a variant of truncateAsk that drops the context section of every prompt
truncateAsk_noContext(prompt, maxChars) ==
  IF Index(prompt, ContextMarker) > -1
  THEN Prefix(prompt, Index(prompt, ContextMarker))
  ELSE IF Len(prompt) > maxChars THEN Prefix(prompt, maxChars) ELSE prompt

\* a variant of truncateAsk that cuts only a prompt with a context section
truncateAsk_onlyContext(prompt, maxChars) ==
  IF Len(prompt) > maxChars /\ Index(prompt, ContextMarker) > -1
  THEN Prefix(prompt, maxChars)
  ELSE prompt

\* handleAsk: "Apply length limit based on max_tokens"
truncateAsk(prompt, maxChars) ==
  IF Len(prompt) > maxChars
  THEN Prefix(prompt, maxChars)
  ELSE LET index == Index(prompt, ContextMarker) IN
       IF index > -1
       THEN IF Len(prompt) > maxChars
            THEN LET overage      == Len(prompt) - maxChars
                     contextStart == index + Len(ContextMarker)
                     contextLen   == Len(prompt) - contextStart
                 IN  IF contextLen > overage
                     THEN Prefix(prompt, Len(prompt) - overage)
                     ELSE Prefix(prompt, index)
            ELSE prompt
       ELSE IF Len(prompt) > maxChars THEN Prefix(prompt, maxChars) ELSE prompt

\* handleRefine: finalPrompt
refinePrompt(originalPrompt, lastPrompt, lastResponse, runOutput, contextOutput, refinement) ==
  RefineIntro \o originalPrompt
    \o RefinePrevPrompt \o lastPrompt
    \o RefinePrevResponse \o lastResponse
    \o (IF runOutput # <<>> THEN RefineRunOutput \o runOutput ELSE <<>>)
    \o (IF contextOutput # <<>> THEN RefineContext \o contextOutput ELSE <<>>)
    \o RefineRefinement \o refinement

\* handleInteractive, refine: finalPrompt
interactiveRefinePrompt(originalPrompt, currentAnswer, runOutput, contextOutput, refineEditor) ==
  IRefineIntro \o originalPrompt
    \o IRefineAnswer \o currentAnswer
    \o (IF runOutput # <<>> THEN IRefineRunOutput \o runOutput ELSE <<>>)
    \o (IF contextOutput # <<>> THEN IRefineContext \o contextOutput ELSE <<>>)
    \o IRefineRefinement \o refineEditor

(***************************************************************************)
(* Files.  A directory is a function from file names to contents.          *)
(***************************************************************************)
\* ioutil.WriteFile(dir/name, data)
WriteFile(dir, name, data) ==
  [n \in DOMAIN dir \cup {name} |-> IF n = name THEN data ELSE dir[n]]

\* readFileIfExists(dir/name): "" when the file is missing
readFileIfExists(dir, name) == IF name \in DOMAIN dir THEN dir[name] ELSE <<>>

\* os.OpenFile(dir/name, O_APPEND|O_CREATE|O_WRONLY) and WriteString(data)
AppendFile(dir, name, data) == WriteFile(dir, name, readFileIfExists(dir, name) \o data)

\* the empty directory
EmptyDir == <<>>

\* a write below the session directory 'path' of the store 'dirs'
WriteSessionFile(dirs, path, name, data) ==
  [dirs EXCEPT ![path] = WriteFile(dirs[path], name, data)]

AppendSessionFile(dirs, path, name, data) ==
  [dirs EXCEPT ![path] = AppendFile(dirs[path], name, data)]

\* a variant of Latest that takes the first directory entry
Latest_first(S) == CHOOSE t \in S : \A u \in S : t <= u

\* the largest element of a non-empty set of timestamps
Latest(S) == CHOOSE t \in S : \A u \in S : u <= t

(***************************************************************************)
(* Session store.                                                          *)
(***************************************************************************)
\* how far storeSession gets: "ok", or the step that fails
StoreOutcomes == {"ok", "mkdir", "prompt", "response", "original"}

\* a variant of storeSession that writes into a directory that exists
storeSession_overwrite(dirs, now, prompt, answer, original, outcome) ==
  LET d3 == WriteFile(WriteFile(WriteFile(EmptyDir, "prompt.txt", prompt),
                                "response.txt", answer),
                      "original_prompt.txt", original)
  IN  [dirs |-> [t \in DOMAIN dirs \cup {now} |-> IF t = now THEN d3 ELSE dirs[t]],
       path |-> IF outcome = "ok" THEN now ELSE 0]

\* storeSession(prompt, answer, originalPrompt) at the time 'now': the
\* session directories afterwards and the returned path (0 for "" with an error)
storeSession(dirs, now, prompt, answer, original, outcome) ==
  IF outcome = "mkdir" \/ now \in DOMAIN dirs
  THEN [dirs |-> dirs, path |-> 0]
  ELSE LET d0 == EmptyDir
           d1 == WriteFile(d0, "prompt.txt", prompt)
           d2 == WriteFile(d1, "response.txt", answer)
           d3 == WriteFile(d2, "original_prompt.txt", original)
           made(d) == [t \in DOMAIN dirs \cup {now} |-> IF t = now THEN d ELSE dirs[t]]
       IN  CASE outcome = "prompt"   -> [dirs |-> made(d0), path |-> 0]
             [] outcome = "response" -> [dirs |-> made(d1), path |-> 0]
             [] outcome = "original" -> [dirs |-> made(d2), path |-> 0]
             [] OTHER                -> [dirs |-> made(d3), path |-> now]

\* a variant of getLastSession that trims what it reads
getLastSession_trimmed(dirs) ==
  IF DOMAIN dirs = {}
  THEN [err |-> TRUE, prompt |-> <<>>, response |-> <<>>, path |-> 0]
  ELSE LET latest == Latest(DOMAIN dirs) IN
       IF "prompt.txt" \notin DOMAIN dirs[latest] \/ "response.txt" \notin DOMAIN dirs[latest]
       THEN [err |-> TRUE, prompt |-> <<>>, response |-> <<>>, path |-> 0]
       ELSE [err |-> FALSE, prompt |-> TrimSpace(dirs[latest]["prompt.txt"]),
             response |-> TrimSpace(dirs[latest]["response.txt"]), path |-> latest]

\* getLastSession(): err, or the prompt, response and path of the last directory
getLastSession(dirs) ==
  IF DOMAIN dirs = {}
  THEN [err |-> TRUE, prompt |-> <<>>, response |-> <<>>, path |-> 0]
  ELSE LET latest == Latest(DOMAIN dirs) IN
       IF "prompt.txt" \notin DOMAIN dirs[latest] \/ "response.txt" \notin DOMAIN dirs[latest]
       THEN [err |-> TRUE, prompt |-> <<>>, response |-> <<>>, path |-> 0]
       ELSE [err |-> FALSE, prompt |-> dirs[latest]["prompt.txt"],
             response |-> dirs[latest]["response.txt"], path |-> latest]

(***************************************************************************)
(* Pending context file.                                                   *)
(***************************************************************************)
\* loadPendingContext(): the content, "" when the file is missing or empty
loadPendingContext(file) == IF file # <<>> /\ Len(file[1]) > 0 THEN file[1] ELSE <<>>

\* a variant of clearPendingContext that leaves the file in place
clearPendingContext_keep(file) == file

\* clearPendingContext(): os.Remove
clearPendingContext(file) == <<>>

\* appendToPendingContext(cmdStr, output)
appendToPendingContext(file, cmdStr, output) ==
  <<(IF file # <<>> THEN file[1] ELSE <<>>) \o contextEntry(cmdStr, output)>>

(***************************************************************************)
(* External collaborators: their results are inputs of the actions.        *)
(***************************************************************************)
\* the prompt a user gives on the command line, in a file or in the editor
OneShotPrompts == {<<"p">>}

\* the text of an interactive "prompt <text>"
PromptTexts == {<<"q">>}

\* CreateChatCompletion: an error, or the content of the first choice
UpstreamError == [err |-> TRUE, content |-> <<>>]

Upstream ==
  {UpstreamError}
    \cup {[err |-> FALSE, content |-> c] : c \in {<<" ">>, <<"$", " ", "c", "\n">>}}

\* askChatGPT returns strings.TrimSpace of the content
askChatGPT(content) == TrimSpace(content)

\* runShellCommand: the combined output and whether the command failed
ShellResults ==
  {[output |-> <<"o">>, err |-> FALSE], [output |-> <<>>, err |-> TRUE]}

\* the refinement text given as arguments or typed in the editor
Refinements == {<<"r">>}

\* n copies of the character c
Rep(c, n) == [i \in 1..n |-> c]

\* the command of the (n+1)-th context entry of a behaviour: the user records
\* the output of a different command each time
ContextCommand(n) == Rep("c", n + 1)

\* runCommandInteractively(cmdStr, sessionPath) when the command produced
\* 'output': run_output.txt is written below sessionPath, which is the
\* working directory when sessionPath is ""
runCommandInteractively(dirs, cwd, path, output) ==
  IF output # <<>>
  THEN IF path # 0
       THEN [dirs |-> WriteSessionFile(dirs, path, "run_output.txt", output), cwd |-> cwd]
       ELSE [dirs |-> dirs, cwd |-> WriteFile(cwd, "run_output.txt", output)]
  ELSE [dirs |-> dirs, cwd |-> cwd]

\* a variant of appendContext that writes nothing
appendContext_drop(dirs, path, cmdStr, output) == dirs

\* a variant of appendContext that replaces context.txt by the entry
appendContext_overwrite(dirs, path, cmdStr, output) ==
  WriteSessionFile(dirs, path, "context.txt", contextEntry(cmdStr, output))

\* a variant of appendContext that appends the entry to response.txt
appendContext_intoResponse(dirs, path, cmdStr, output) ==
  AppendSessionFile(dirs, path, "response.txt", contextEntry(cmdStr, output))

\* addContextCommand / addContextInInteractive: the entry is appended to
\* context.txt below sessionPath
appendContext(dirs, path, cmdStr, output) ==
  AppendSessionFile(dirs, path, "context.txt", contextEntry(cmdStr, output))

(***************************************************************************)
(* State.                                                                  *)
(***************************************************************************)
VARIABLES
  maxTokens,           \* the global maxTokens (default or configured)
  clock,               \* time.Now(), in seconds
  sessions,            \* ~/.ask/sessions: timestamp -> (file name -> content)
  pendingFile,         \* ~/.ask/pending_context.txt: <<>> if absent, else <<content>>
  cwdFiles,            \* files written relative to the working directory
  ipc,                 \* "off": no interactive run, "loop": handleInteractive reads a line
  currentPrompt,       \* handleInteractive locals
  currentAnswer,
  currentSessionPath,  \* 0 stands for "", else the timestamp of the session directory
  originalPrompt,
  pendingContext,
  currentCommands,
  nctx,                \* context entries recorded so far (bounded by MaxContext)
  arrivals,            \* the entries appended to the pending file since it was created
  nops,               \* invocations and command lines so far (bounded by MaxOps)
  last,                \* what the most recent operation read, sent and stored
  tin,                 \* the inputs of a function harness, or what each of the
                       \* concurrent invocations runs
  tout                 \* what the harness has applied to them, or where each
                       \* invocation is and what it holds

vars == <<maxTokens, clock, sessions, pendingFile, cwdFiles, ipc, currentPrompt,
          currentAnswer, currentSessionPath, originalPrompt, pendingContext,
          currentCommands, nctx, arrivals, nops, last, tin, tout>>

sysVars == <<clock, sessions, pendingFile, cwdFiles, ipc, currentPrompt,
             currentAnswer, currentSessionPath, originalPrompt, pendingContext,
             currentCommands, nctx, arrivals, nops, last>>

\* maxChars := maxTokens * charsPerToken
maxChars == maxTokens * charsPerToken

\* no argument of "run <N>", or one that Atoi rejects
NoRunArg == [numeric |-> FALSE, n |-> 0]

\* the record of the most recent operation: its input, the pending context
\* it loaded, the text it passed to askChatGPT, whether the call was made
\* and answered, the session it created (0: none), whether a session
\* directory existed before, the context entry it reported as added, and,
\* for a one-shot ask, the operation right before it and the entry that one added;
\* the message that rejects a command; for "run <N>", the argument, whether the user
\* edited the command, the command executed ("" when none was) and its
\* output; for a context command, the entry of the command that was run;
\* and, through an interactive run, the text its first answered ask sent,
\* the text sent by the request that gave the current answer, and whether
\* an answer has arrived with no prompt command after it; what the
\* completion call returned, and the answer printed
NoOp ==
  [op |-> "none", base |-> <<>>, pending |-> <<>>, sent |-> <<>>,
   called |-> FALSE, answered |-> FALSE, stored |-> 0, hadSession |-> FALSE,
   added |-> <<>>, prevOp |-> "none", prevAdded |-> <<>>,
   arg |-> NoRunArg, report |-> "", edited |-> FALSE, ran |-> <<>>, output |-> <<>>,
   tried |-> <<>>, first |-> <<>>, answerSent |-> <<>>, ready |-> FALSE,
   reply |-> UpstreamError, shown |-> <<>>]

\* the record of an assembly of the truncation harness: the candidate text,
\* the text passed to askChatGPT, and where the base/refinement body and the
\* context section lie in the candidate text (1-based, 0 when there is none)
NoAssembly ==
  [op |-> "none", assembled |-> <<>>, sent |-> <<>>,
   bodyFrom |-> 0, bodyTo |-> 0, ctxFrom |-> 0, ctxTo |-> 0]

NoInput == [body |-> <<>>, ctx |-> <<>>, refinement |-> <<>>, runOutput |-> <<>>]

\* the state of the system variables before any invocation
SysInit ==
  /\ clock = 1
  /\ sessions = <<>>
  /\ pendingFile = <<>>
  /\ cwdFiles = <<>>
  /\ ipc = "off"
  /\ currentPrompt = <<>>
  /\ currentAnswer = <<>>
  /\ currentSessionPath = 0
  /\ originalPrompt = <<>>
  /\ pendingContext = <<>>
  /\ currentCommands = <<>>
  /\ nctx = 0
  /\ arrivals = <<>>
  /\ nops = 0
  /\ last = NoOp

(***************************************************************************)
(* The truncation harness: each assembly is applied to inputs drawn from   *)
(* bounded sets.                                                           *)
(***************************************************************************)
\* a prompt that already carries a context section, as runInitialContextLoop
\* returns it after ":context c" and ":done"
BodyWithContext == <<"p">> \o AskContextHeading \o contextEntry(<<"c">>, <<>>)

TruncBodies ==
  {Rep("p", n) : n \in 0..MaxBodyLen} \cup {Rep("p", 15), BodyWithContext}

TruncContexts ==
  {<<>>}
    \cup {contextEntry(<<"c">>, Rep("o", n)) : n \in 0..MaxOutLen}
    \cup {contextEntry(<<"c">>, <<>>) \o contextEntry(<<"d">>, <<"o">>)}
    \cup {contextEntry(<<"l", "s">>, Rep("o", 12))}

TruncInputs ==
  [body : TruncBodies, ctx : TruncContexts, refinement : {<<>>, <<"r">>},
   runOutput : {<<>>, <<"u">>}]

TruncInit ==
  /\ SysInit
  /\ maxTokens \in 1..MaxTokens
  /\ tin \in TruncInputs
  /\ tout = NoAssembly

\* where the context section lies in a text that ends with it
TailContext(rec, assembled, ctx) ==
  [rec EXCEPT
     !.ctxFrom = IF ctx = <<>> THEN 0 ELSE Len(assembled) - Len(ctx) + 1,
     !.ctxTo = IF ctx = <<>> THEN 0 ELSE Len(assembled)]

\* where the refinement and the context section lie in a refine prompt;
\* 'heading' is the heading of the refinement, which follows the context
RefineLayout(rec, assembled, ctx, refinement, heading) ==
  LET ctxTo == Len(assembled) - Len(refinement) - Len(heading) IN
  [rec EXCEPT
     !.bodyFrom = IF refinement = <<>> THEN 0 ELSE Len(assembled) - Len(refinement) + 1,
     !.bodyTo = IF refinement = <<>> THEN 0 ELSE Len(assembled),
     !.ctxFrom = IF ctx = <<>> THEN 0 ELSE ctxTo - Len(ctx) + 1,
     !.ctxTo = IF ctx = <<>> THEN 0 ELSE ctxTo]

\* handleAsk, lines 458-502, on a base prompt and a pending context
TruncAsk ==
  /\ tout.op = "none"
  /\ LET assembled == askPrompt(tin.body, tin.ctx) IN
     /\ assembled # <<>>
     /\ tout' = TailContext(
          [NoAssembly EXCEPT
             !.op = "ask", !.assembled = assembled,
             !.sent = truncateAsk(assembled, maxChars),
             !.bodyFrom = IF tin.body = <<>> THEN 0 ELSE 1,
             !.bodyTo = Len(tin.body)],
          assembled, tin.ctx)
  /\ UNCHANGED <<sysVars, maxTokens, tin>>

\* handleInteractive, "ask", lines 728-743
TruncInteractiveAsk ==
  /\ tout.op = "none"
  /\ tin.body # <<>>
  /\ LET assembled == askPrompt(tin.body, tin.ctx) IN
     /\ tout' = TailContext(
          [NoAssembly EXCEPT
             !.op = "iask", !.assembled = assembled,
             !.sent = truncatePrefix(assembled, maxChars),
             !.bodyFrom = 1,
             !.bodyTo = Len(tin.body)],
          assembled, tin.ctx)
  /\ UNCHANGED <<sysVars, maxTokens, tin>>

\* handleRefine, lines 631-651, refining a session of prompt tin.body (a
\* stored prompt is never empty)
TruncRefine ==
  /\ tout.op = "none"
  /\ tin.body # <<>>
  /\ LET assembled == refinePrompt(tin.body, tin.body, <<"a">>, tin.runOutput,
                                   tin.ctx, tin.refinement)
     IN
     /\ tout' = RefineLayout(
          [NoAssembly EXCEPT
             !.op = "refine", !.assembled = assembled,
             !.sent = truncatePrefix(assembled, maxChars)],
          assembled, tin.ctx, tin.refinement, RefineRefinement)
  /\ UNCHANGED <<sysVars, maxTokens, tin>>

\* handleInteractive, "refine", lines 803-823, after an ask of tin.body
TruncInteractiveRefine ==
  /\ tout.op = "none"
  /\ tin.body # <<>>
  /\ LET assembled == interactiveRefinePrompt(tin.body, <<"a">>, tin.runOutput,
                                              tin.ctx, tin.refinement)
     IN
     /\ tout' = RefineLayout(
          [NoAssembly EXCEPT
             !.op = "irefine", !.assembled = assembled,
             !.sent = truncatePrefix(assembled, maxChars)],
          assembled, tin.ctx, tin.refinement, IRefineRefinement)
  /\ UNCHANGED <<sysVars, maxTokens, tin>>

TruncNext ==
  \/ TruncAsk
  \/ TruncInteractiveAsk
  \/ TruncRefine
  \/ TruncInteractiveRefine

SpecTrunc == TruncInit /\ [][TruncNext]_vars

(***************************************************************************)
(* One-shot invocations.  The user runs one invocation at a time: a        *)
(* one-shot command starts when no interactive run is open, and runs to    *)
(* its end before the next operation.                                      *)
(***************************************************************************)
\* the record of an operation that starts now
Op(name) ==
  [NoOp EXCEPT !.op = name, !.first = last.first, !.answerSent = last.answerSent,
               !.ready = last.ready]

\* the user's answer to "Press Enter to confirm or type 'edit' to modify"
RunChoices ==
  {[edit |-> FALSE, text |-> <<>>],
   [edit |-> TRUE, text |-> <<" ">>],
   [edit |-> TRUE, text |-> <<"e">>]}

\* runCommandInteractively: the command after the optional edit
finalCommand(cmdStr, choice) == IF choice.edit THEN TrimSpace(choice.text) ELSE cmdStr

\* ask [-run] [prompt]: 'input' is the prompt given as argument, read from
\* the file, or typed in the editor and returned by runInitialContextLoop
handleAsk(input, run, up, outcome, choice, sh) ==
  /\ ipc = "off"
  /\ nops < MaxOps
  /\ nops' = nops + 1
  /\ LET pending == loadPendingContext(pendingFile)
         prompt  == askPrompt(input, pending)
         cleared == IF pending # <<>> THEN clearPendingContext(pendingFile) ELSE pendingFile
         sent    == truncateAsk(prompt, maxChars)
         answer  == askChatGPT(up.content)
         st      == storeSession(sessions, clock, sent, answer, sent, outcome)
         cmdStr  == extractCommand(answer)
         toRun   == IF run /\ cmdStr # <<>> THEN finalCommand(cmdStr, choice) ELSE <<>>
         ran     == IF toRun # <<>>
                    THEN runCommandInteractively(st.dirs, cwdFiles, st.path, sh.output)
                    ELSE [dirs |-> st.dirs, cwd |-> cwdFiles]
         rec     == [Op("ask") EXCEPT
                       !.base = input, !.pending = pending,
                       !.hadSession = (DOMAIN sessions # {}),
                       !.prevOp = last.op, !.prevAdded = last.added]
         asked   == [rec EXCEPT !.sent = sent, !.called = TRUE, !.reply = up]
     IN  IF prompt = <<>>
         THEN \* "No prompt provided."
              /\ last' = rec
              /\ UNCHANGED <<sessions, pendingFile, cwdFiles>>
         ELSE IF up.err
         THEN \* "Error getting response"
              /\ pendingFile' = cleared
              /\ last' = asked
              /\ UNCHANGED <<sessions, cwdFiles>>
         ELSE /\ pendingFile' = cleared
              /\ sessions' = ran.dirs
              /\ cwdFiles' = ran.cwd
              /\ last' = [asked EXCEPT !.answered = TRUE, !.stored = st.path,
                                          !.shown = answer]
  /\ UNCHANGED <<maxTokens, clock, ipc, currentPrompt, currentAnswer, currentSessionPath,
                 originalPrompt, pendingContext, currentCommands, nctx, arrivals, tin,
                 tout>>

\* ask refine [text]: 'refinement' comes from the arguments or the editor
handleRefine(refinement, edErr, up, outcome) ==
  /\ ipc = "off"
  /\ nops < MaxOps
  /\ nops' = nops + 1
  /\ LET ls  == getLastSession(sessions)
         rec == [Op("refine") EXCEPT
                   !.base = refinement, !.hadSession = (DOMAIN sessions # {})]
     IN  IF ls.err \/ edErr
         THEN \* "Error retrieving last session" / "Failed to open editor"
              /\ last' = rec
              /\ UNCHANGED sessions
         ELSE LET dir           == sessions[ls.path]
                  stored        == readFileIfExists(dir, "original_prompt.txt")
                  original      == IF Len(stored) = 0 THEN ls.prompt ELSE stored
                  runOutput     == readFileIfExists(dir, "run_output.txt")
                  contextOutput == readFileIfExists(dir, "context.txt")
                  finalPrompt   == refinePrompt(original, ls.prompt, ls.response,
                                                runOutput, contextOutput, refinement)
                  sent          == truncatePrefix(finalPrompt, maxChars)
                  answer        == askChatGPT(up.content)
                  st            == storeSession(sessions, clock, sent, answer, original,
                                                outcome)
                  asked         == [rec EXCEPT !.sent = sent, !.called = TRUE, !.reply = up]
              IN  IF up.err
                  THEN \* "Error getting refinement"
                       /\ last' = asked
                       /\ UNCHANGED sessions
                  ELSE /\ sessions' = st.dirs
                       /\ last' = [asked EXCEPT !.answered = TRUE, !.stored = st.path,
                                          !.shown = answer]
  /\ UNCHANGED <<maxTokens, clock, pendingFile, cwdFiles, ipc, currentPrompt,
                 currentAnswer, currentSessionPath, originalPrompt, pendingContext,
                 currentCommands, nctx, arrivals, tin, tout>>

\* ask context <command>
handleContext(cmdStr, sh) ==
  /\ ipc = "off"
  /\ nops < MaxOps
  /\ nops' = nops + 1
  /\ nctx < MaxContext
  /\ LET ls    == getLastSession(sessions)
         entry == contextEntry(cmdStr, sh.output)
         rec   == [Op("context") EXCEPT
                     !.hadSession = (DOMAIN sessions # {}), !.tried = entry]
     IN  IF ls.err
         THEN \* no session yet: the pending context file
              IF sh.err
              THEN \* "Error adding context"
                   /\ last' = rec
                   /\ UNCHANGED <<sessions, pendingFile, nctx, arrivals>>
              ELSE /\ pendingFile' = appendToPendingContext(pendingFile, cmdStr, sh.output)
                   /\ arrivals' = IF pendingFile = <<>> THEN <<entry>>
                                  ELSE Append(arrivals, entry)
                   /\ nctx' = nctx + 1
                   /\ last' = [rec EXCEPT !.added = entry]
                   /\ UNCHANGED sessions
         ELSE \* addContextCommand(cmdStr, sessionPath): the entry is written
              \* even when the command failed
              /\ sessions' = appendContext(sessions, ls.path, cmdStr, sh.output)
              /\ nctx' = nctx + 1
              /\ last' = IF sh.err THEN rec ELSE [rec EXCEPT !.added = entry]
              /\ UNCHANGED <<pendingFile, arrivals>>
  /\ UNCHANGED <<maxTokens, clock, cwdFiles, ipc, currentPrompt, currentAnswer,
                 currentSessionPath, originalPrompt, pendingContext, currentCommands,
                 tin, tout>>

\* a second passes.  Only the order of the session directories and the
\* collision of two sessions in one second depend on the time, so the
\* clock moves on from a second in which a session was stored
Tick ==
  /\ clock < MaxClock
  /\ clock \in DOMAIN sessions
  /\ clock' = clock + 1
  /\ UNCHANGED <<maxTokens, nops, sessions, pendingFile, cwdFiles, ipc, currentPrompt,
                 currentAnswer, currentSessionPath, originalPrompt, pendingContext,
                 currentCommands, nctx, arrivals, last, tin, tout>>

(***************************************************************************)
(* handleInteractive: one action per command line read by the loop.        *)
(***************************************************************************)
\* ask interactive: the locals start as zero values
interactiveStart ==
  /\ ipc = "off"
  /\ nops < MaxOps
  /\ nops' = nops + 1
  /\ ipc' = "loop"
  /\ last' = Op("istart")
  /\ UNCHANGED <<maxTokens, clock, sessions, pendingFile, cwdFiles, currentPrompt,
                 currentAnswer, currentSessionPath, originalPrompt, pendingContext,
                 currentCommands, nctx, arrivals, tin, tout>>

\* "exit", end of input or an interrupt: the process ends and its locals go
interactiveExit ==
  /\ ipc = "loop"
  /\ ipc' = "off"
  /\ currentPrompt' = <<>>
  /\ currentAnswer' = <<>>
  /\ currentSessionPath' = 0
  /\ originalPrompt' = <<>>
  /\ pendingContext' = <<>>
  /\ currentCommands' = <<>>
  /\ last' = [Op("iexit") EXCEPT !.first = <<>>, !.answerSent = <<>>, !.ready = FALSE]
  /\ UNCHANGED <<maxTokens, nops, clock, sessions, pendingFile, cwdFiles, nctx, arrivals,
                 tin, tout>>

\* "prompt": the editor returns 'edited', or fails
interactivePromptEdit(edited, edErr) ==
  /\ ipc = "loop"
  /\ nops < MaxOps
  /\ nops' = nops + 1
  /\ currentPrompt' = IF edErr THEN currentPrompt ELSE edited
  /\ last' = [Op("iprompt") EXCEPT !.ready = IF edErr THEN last.ready ELSE FALSE]
  /\ UNCHANGED <<maxTokens, clock, sessions, pendingFile, cwdFiles, ipc, currentAnswer,
                 currentSessionPath, originalPrompt, pendingContext, currentCommands,
                 nctx, arrivals, tin, tout>>

\* "prompt <text>"
interactivePromptText(text) ==
  /\ ipc = "loop"
  /\ nops < MaxOps
  /\ nops' = nops + 1
  /\ currentPrompt' = text
  /\ last' = [Op("iprompt") EXCEPT !.ready = FALSE]
  /\ UNCHANGED <<maxTokens, clock, sessions, pendingFile, cwdFiles, ipc, currentAnswer,
                 currentSessionPath, originalPrompt, pendingContext, currentCommands,
                 nctx, arrivals, tin, tout>>

\* a variant that takes the prompt of every ask as the original prompt
originalPromptAfterAsk_latest(original, prompt) == prompt

\* "ask": if originalPrompt == "" { originalPrompt = currentPrompt }
originalPromptAfterAsk(original, prompt) == IF original = <<>> THEN prompt ELSE original

\* a variant of cacheAfterAnswer that caches nothing
cacheAfterAnswer_none(answer) == <<>>

\* a variant that keeps the cached commands of the previous answer
cacheAfterAnswer_stale(answer) == currentCommands

\* currentCommands = extractCommands(currentAnswer), after ask and after refine
cacheAfterAnswer(answer) == extractCommands(answer)

\* "ask": if currentPrompt == ""
promptMissing_never(prompt) == FALSE

promptMissing(prompt) == prompt = <<>>

\* "ask"
interactiveAsk(up, outcome) ==
  /\ ipc = "loop"
  /\ nops < MaxOps
  /\ nops' = nops + 1
  /\ LET rec == [Op("iask") EXCEPT
                   !.base = currentPrompt, !.pending = pendingContext,
                   !.hadSession = (DOMAIN sessions # {})]
     IN
     IF promptMissing(currentPrompt)
     THEN \* "No prompt set."
          /\ last' = [rec EXCEPT !.report = "No prompt set. Use 'prompt' to set one."]
          /\ UNCHANGED <<sessions, currentPrompt, currentAnswer, currentSessionPath,
                         originalPrompt, pendingContext, currentCommands>>
     ELSE LET assembled == askPrompt(currentPrompt, pendingContext)
              sent      == truncatePrefix(assembled, maxChars)
              ans       == askChatGPT(up.content)
              original  == originalPromptAfterAsk(originalPrompt, sent)
              st        == storeSession(sessions, clock, sent, ans, original, outcome)
              asked     == [rec EXCEPT !.sent = sent, !.called = TRUE, !.reply = up]
          IN  /\ currentPrompt' = sent
              /\ pendingContext' = <<>>
              /\ IF up.err
                 THEN \* "Error:"
                      /\ last' = asked
                      /\ UNCHANGED <<sessions, currentAnswer, currentSessionPath,
                                     originalPrompt, currentCommands>>
                 ELSE /\ currentAnswer' = ans
                      /\ originalPrompt' = original
                      /\ sessions' = st.dirs
                      /\ currentSessionPath' = st.path
                      /\ currentCommands' = cacheAfterAnswer(ans)
                      /\ last' = [asked EXCEPT
                                    !.answered = TRUE, !.stored = st.path, !.shown = ans,
                                    !.first = IF last.first = <<>> THEN sent
                                              ELSE last.first,
                                    !.answerSent = sent, !.ready = TRUE]
  /\ UNCHANGED <<maxTokens, clock, pendingFile, cwdFiles, ipc, nctx, arrivals, tin, tout>>

\* "refine": if currentAnswer == ""
answerMissing_never(answer) == FALSE

answerMissing(answer) == answer = <<>>

\* "refine": the editor returns 'refineEditor', or fails
interactiveRefine(refineEditor, edErr, up, outcome) ==
  /\ ipc = "loop"
  /\ nops < MaxOps
  /\ nops' = nops + 1
  /\ LET rec == [Op("irefine") EXCEPT
                   !.base = refineEditor, !.hadSession = (DOMAIN sessions # {})]
     IN
     IF answerMissing(currentAnswer)
     THEN \* "No answer to refine.": the editor is not opened
          /\ last' = [rec EXCEPT
                        !.base = <<>>, !.report = "No answer to refine. Use 'ask' first."]
          /\ UNCHANGED <<sessions, currentAnswer, currentSessionPath, originalPrompt,
                         currentCommands>>
     ELSE LET dir           == IF currentSessionPath # 0
                               THEN sessions[currentSessionPath] ELSE EmptyDir
              runOutput     == readFileIfExists(dir, "run_output.txt")
              contextOutput == readFileIfExists(dir, "context.txt")
              orig          == readFileIfExists(dir, "original_prompt.txt")
              original      == IF Len(orig) > 0 THEN orig ELSE originalPrompt
              finalPrompt   == interactiveRefinePrompt(original, currentAnswer, runOutput,
                                                       contextOutput, refineEditor)
              sent          == truncatePrefix(finalPrompt, maxChars)
              ans           == askChatGPT(up.content)
              st            == storeSession(sessions, clock, sent, ans, original, outcome)
              asked         == [rec EXCEPT !.sent = sent, !.called = TRUE, !.reply = up]
          IN  /\ originalPrompt' = original
              /\ IF edErr
                 THEN \* "Failed to open editor"
                      /\ last' = rec
                      /\ UNCHANGED <<sessions, currentAnswer, currentSessionPath,
                                     currentCommands>>
                 ELSE IF up.err
                 THEN \* "Error:"
                      /\ last' = asked
                      /\ UNCHANGED <<sessions, currentAnswer, currentSessionPath,
                                     currentCommands>>
                 ELSE /\ currentAnswer' = ans
                      /\ sessions' = st.dirs
                      /\ currentSessionPath' = st.path
                      /\ currentCommands' = cacheAfterAnswer(ans)
                      /\ last' = [asked EXCEPT
                                    !.answered = TRUE, !.stored = st.path, !.shown = ans,
                                    !.answerSent = sent, !.ready = TRUE]
  /\ UNCHANGED <<maxTokens, clock, pendingFile, cwdFiles, ipc, currentPrompt,
                 pendingContext, nctx, arrivals, tin, tout>>

\* "run": the cached commands are listed
interactiveRunList ==
  /\ ipc = "loop"
  /\ nops < MaxOps
  /\ nops' = nops + 1
  /\ last' = Op("irunlist")
  /\ UNCHANGED <<maxTokens, clock, sessions, pendingFile, cwdFiles, ipc, currentPrompt,
                 currentAnswer, currentSessionPath, originalPrompt, pendingContext,
                 currentCommands, nctx, arrivals, tin, tout>>

\* the arguments of "run <N>": the integers Atoi accepts, and one it rejects
RunArgs == {NoRunArg} \cup [numeric : {TRUE}, n : 0..2]

\* a variant that counts the commands from the end of the list
nthCommand_fromEnd(commands, n) == commands[Len(commands) - n + 1]

\* cmdStr := currentCommands[n-1], with n counted from 1
nthCommand(commands, n) == commands[n]

\* "run <N>" passes the checks on the cached commands and the number
ValidRunArg(arg) ==
  ~(\/ Len(currentCommands) = 0
    \/ ~arg.numeric
    \/ arg.n < 1
    \/ arg.n > Len(currentCommands))

\* "run <N>"
interactiveRun(arg, outcome, choice, sh) ==
  /\ ipc = "loop"
  /\ nops < MaxOps
  /\ nops' = nops + 1
  /\ IF ~ValidRunArg(arg)
     THEN \* "No commands available to run." / "Invalid command number."
          /\ last' = [Op("irun") EXCEPT
                        !.arg = arg,
                        !.report = IF Len(currentCommands) = 0
                                   THEN "No commands available to run."
                                   ELSE "Invalid command number."]
          /\ UNCHANGED <<sessions, cwdFiles, currentSessionPath>>
     ELSE LET cmdStr  == nthCommand(currentCommands, arg.n)
              create  == currentSessionPath = 0
              st      == IF create
                         THEN storeSession(sessions, clock, currentPrompt, currentAnswer,
                                           originalPrompt, outcome)
                         ELSE [dirs |-> sessions, path |-> currentSessionPath]
              toRun   == finalCommand(cmdStr, choice)
              ran     == IF toRun # <<>>
                         THEN runCommandInteractively(st.dirs, cwdFiles, st.path, sh.output)
                         ELSE [dirs |-> st.dirs, cwd |-> cwdFiles]
          IN  /\ currentSessionPath' = st.path
              /\ sessions' = ran.dirs
              /\ cwdFiles' = ran.cwd
              /\ last' = [Op("irun") EXCEPT
                            !.base = cmdStr, !.arg = arg, !.edited = choice.edit,
                            !.ran = toRun,
                            !.output = IF toRun # <<>> THEN sh.output ELSE <<>>,
                            !.stored = IF create THEN st.path ELSE 0,
                            !.hadSession = (DOMAIN sessions # {})]
  /\ UNCHANGED <<maxTokens, clock, pendingFile, ipc, currentPrompt, currentAnswer,
                 originalPrompt, pendingContext, currentCommands, nctx, arrivals, tin,
                 tout>>

\* addContextInInteractive(cmdStr, currentSessionPath, &pendingContext)
addContextInInteractive(cmdStr, sh) ==
  /\ nctx < MaxContext
  /\ IF sh.err
     THEN \* "Error adding context"
          /\ last' = [Op("icontext") EXCEPT !.tried = contextEntry(cmdStr, sh.output)]
          /\ UNCHANGED <<sessions, pendingContext, nctx>>
     ELSE /\ nctx' = nctx + 1
          /\ last' = [Op("icontext") EXCEPT
                        !.tried = contextEntry(cmdStr, sh.output),
                        !.added = contextEntry(cmdStr, sh.output)]
          /\ IF currentSessionPath # 0
             THEN /\ sessions' = appendContext(sessions, currentSessionPath, cmdStr,
                                               sh.output)
                  /\ UNCHANGED pendingContext
             ELSE /\ pendingContext' = pendingContext \o contextEntry(cmdStr, sh.output)
                  /\ UNCHANGED sessions

\* "context": the command is read from the next line, which may be empty
interactiveContextPrompted(ctxLine, sh) ==
  /\ ipc = "loop"
  /\ nops < MaxOps
  /\ nops' = nops + 1
  /\ IF ctxLine = <<>>
     THEN /\ last' = Op("icontext")
          /\ UNCHANGED <<sessions, pendingContext, nctx>>
     ELSE addContextInInteractive(ctxLine, sh)
  /\ UNCHANGED <<maxTokens, clock, pendingFile, cwdFiles, ipc, currentPrompt,
                 currentAnswer, currentSessionPath, originalPrompt, currentCommands,
                 arrivals, tin, tout>>

\* "context <cmd>"
interactiveContext(cmdStr, sh) ==
  /\ ipc = "loop"
  /\ nops < MaxOps
  /\ nops' = nops + 1
  /\ addContextInInteractive(cmdStr, sh)
  /\ UNCHANGED <<maxTokens, clock, pendingFile, cwdFiles, ipc, currentPrompt,
                 currentAnswer, currentSessionPath, originalPrompt, currentCommands,
                 arrivals, tin, tout>>

\* "help", "show", an empty or an unknown line
interactiveShow ==
  /\ ipc = "loop"
  /\ nops < MaxOps
  /\ nops' = nops + 1
  /\ last' = Op("ishow")
  /\ UNCHANGED <<maxTokens, clock, sessions, pendingFile, cwdFiles, ipc, currentPrompt,
                 currentAnswer, currentSessionPath, originalPrompt, pendingContext,
                 currentCommands, nctx, arrivals, tin, tout>>

(***************************************************************************)
(* The system.                                                             *)
(***************************************************************************)
Init ==
  /\ SysInit
  /\ maxTokens \in {SmallMaxTokens, DefaultMaxTokens}
  /\ tin = NoInput
  /\ tout = NoAssembly

\* the results that matter to a command run by runCommandInteractively
RunResults == {[output |-> <<"o">>, err |-> FALSE], [output |-> <<>>, err |-> FALSE]}

NoEdit == [edit |-> FALSE, text |-> <<>>]

NoShell == [output |-> <<>>, err |-> FALSE]

\* every write of storeSession succeeds unless the directory exists
Stored == "ok"

\* the answers to the confirmation of a command that is or is not offered
ChoicesIf(offered) == IF offered THEN RunChoices ELSE {NoEdit}

\* the results of the command that is or is not executed
ResultsIf(executed) == IF executed THEN RunResults ELSE {NoShell}

Next ==
  \/ Tick
  \/ \E input \in OneShotPrompts \cup {<<>>}, up \in Upstream :
     \E run \in (IF up.err THEN {FALSE} ELSE BOOLEAN) :
     \E choice \in ChoicesIf(run /\ extractCommand(askChatGPT(up.content)) # <<>>) :
     \E sh \in ResultsIf(run /\ finalCommand(extractCommand(askChatGPT(up.content)),
                                             choice) # <<>>) :
       handleAsk(input, run, up, Stored, choice, sh)
  \/ \E refinement \in Refinements, edErr \in BOOLEAN :
     \E up \in (IF edErr THEN {UpstreamError} ELSE Upstream) :
       handleRefine(refinement, edErr, up, Stored)
  \/ \E sh \in ShellResults : handleContext(ContextCommand(nctx), sh)
  \/ interactiveStart
  \/ interactiveExit
  \/ \E edErr \in BOOLEAN :
     \E edited \in (IF edErr THEN {<<>>} ELSE OneShotPrompts \cup {<<>>}) :
       interactivePromptEdit(edited, edErr)
  \/ \E text \in PromptTexts : interactivePromptText(text)
  \/ \E up \in Upstream : interactiveAsk(up, Stored)
  \/ \E edErr \in BOOLEAN :
     \E refineEditor \in (IF edErr THEN {<<>>} ELSE Refinements),
        up \in (IF edErr THEN {UpstreamError} ELSE Upstream) :
       interactiveRefine(refineEditor, edErr, up, Stored)
  \/ interactiveRunList
  \/ \E arg \in RunArgs :
     \E choice \in ChoicesIf(ValidRunArg(arg)) :
     \E sh \in ResultsIf(ValidRunArg(arg)
                         /\ finalCommand(nthCommand(currentCommands, arg.n), choice) # <<>>) :
       interactiveRun(arg, Stored, choice, sh)
  \/ \E ctxLine \in {ContextCommand(nctx), <<>>} :
     \E sh \in (IF ctxLine = <<>> THEN {NoShell} ELSE ShellResults) :
       interactiveContextPrompted(ctxLine, sh)
  \/ \E sh \in ShellResults : interactiveContext(ContextCommand(nctx), sh)
  \/ interactiveShow

Spec == Init /\ [][Next]_vars

(***************************************************************************)
(* One run of handleInteractive, from the first line it reads, on a store  *)
(* that is empty or holds the session of an earlier one-shot ask.          *)
(***************************************************************************)
\* ~/.ask/sessions after "ask p" was answered with an empty text in second 1
OneShotSessions == storeSession(<<>>, 1, <<"p">>, <<>>, <<"p">>, "ok").dirs

InteractiveInit ==
  /\ maxTokens \in {SmallMaxTokens, DefaultMaxTokens}
  /\ clock = 1
  /\ sessions \in {<<>>, OneShotSessions}
  /\ pendingFile = <<>>
  /\ cwdFiles = <<>>
  /\ ipc = "loop"
  /\ currentPrompt = <<>>
  /\ currentAnswer = <<>>
  /\ currentSessionPath = 0
  /\ originalPrompt = <<>>
  /\ pendingContext = <<>>
  /\ currentCommands = <<>>
  /\ nctx = 0
  /\ arrivals = <<>>
  /\ nops = 0
  /\ last = [NoOp EXCEPT !.op = "istart"]
  /\ tin = NoInput
  /\ tout = NoAssembly

\* the completions of an interactive run: an error, an answer without a
\* command and an answer with two commands
InteractiveUpstream ==
  {UpstreamError}
    \cup {[err |-> FALSE, content |-> c] :
            c \in {<<" ">>, <<"$", " ", "c", "\n", "$", " ", "d", "\n">>}}

\* the arguments of "run <N>" of an interactive run: one Atoi rejects, and
\* numbers below, within and above the list of two commands
InteractiveRunArgs == {NoRunArg} \cup [numeric : {TRUE}, n : {0, 1, 2, 5}]

InteractiveNext ==
  \/ Tick
  \/ interactiveExit
  \/ \E edErr \in BOOLEAN :
     \E edited \in (IF edErr THEN {<<>>} ELSE OneShotPrompts \cup {<<>>}) :
       interactivePromptEdit(edited, edErr)
  \/ \E text \in PromptTexts : interactivePromptText(text)
  \/ \E up \in InteractiveUpstream : interactiveAsk(up, Stored)
  \/ \E edErr \in BOOLEAN :
     \E refineEditor \in (IF edErr THEN {<<>>} ELSE Refinements),
        up \in (IF edErr THEN {UpstreamError} ELSE InteractiveUpstream) :
       interactiveRefine(refineEditor, edErr, up, Stored)
  \/ interactiveRunList
  \/ \E arg \in InteractiveRunArgs :
     \E choice \in ChoicesIf(ValidRunArg(arg)) :
     \E sh \in ResultsIf(ValidRunArg(arg)
                         /\ finalCommand(nthCommand(currentCommands, arg.n), choice) # <<>>) :
       interactiveRun(arg, Stored, choice, sh)
  \/ \E ctxLine \in {ContextCommand(nctx), <<>>} :
     \E sh \in (IF ctxLine = <<>> THEN {NoShell} ELSE ShellResults) :
       interactiveContextPrompted(ctxLine, sh)
  \/ \E sh \in ShellResults : interactiveContext(ContextCommand(nctx), sh)
  \/ interactiveShow

SpecInteractive == InteractiveInit /\ [][InteractiveNext]_vars

(***************************************************************************)
(* Truncation properties.                                                  *)
(***************************************************************************)
Max(a, b) == IF a >= b THEN a ELSE b

OverBudget == Len(tout.assembled) > maxChars

\* overage := len(prompt) - maxChars
Overage == Len(tout.assembled) - maxChars

\* the offset of the "Additional Context:\n" heading in the candidate text
MarkerIndex == Index(tout.assembled, ContextMarker)

\* the context section starts after the heading
SectionStart(i) == i + Len(ContextMarker)

SectionLen(i) == Len(tout.assembled) - SectionStart(i)

\* the candidate text of the harness inputs without its context section
NoContextText ==
  CASE tout.op \in {"ask", "iask"} -> tin.body
    [] tout.op = "refine" ->
         refinePrompt(tin.body, tin.body, <<"a">>, tin.runOutput, <<>>, tin.refinement)
    [] tout.op = "irefine" ->
         interactiveRefinePrompt(tin.body, <<"a">>, tin.runOutput, <<>>, tin.refinement)
    [] OTHER -> <<>>

\* the output is a prefix of the candidate text, so character i of the
\* candidate text is kept exactly when i <= Len(tout.sent)
BodyCharRemoved == tout.bodyFrom > 0 /\ tout.bodyTo > Len(tout.sent)

ContextCharRemains == tout.ctxFrom > 0 /\ tout.ctxFrom <= Len(tout.sent)

\* C1 (as claimed): over budget, with a heading whose context section is not
\* longer than the overage, the text sent is the candidate text cut at the
\* start of the heading.
C1_ContextDroppedAtHeading ==
  (/\ tout.op \in {"ask", "iask"}
   /\ OverBudget
   /\ MarkerIndex > -1
   /\ SectionLen(MarkerIndex) <= Overage)
  => tout.sent = Prefix(tout.assembled, MarkerIndex)

\* C2: over budget, with a heading whose context section is longer than the
\* overage, handleAsk removes exactly 'overage' characters from the end: the
\* result has the length of the budget and everything up to and including
\* the heading is unchanged.
C2_OverageTrimmedFromContext ==
  \A i \in 0..Len(tout.assembled) :
    (/\ tout.op = "ask"
     /\ OverBudget
     /\ OccursAt(tout.assembled, ContextMarker, i)
     /\ SectionLen(i) > Overage)
    => /\ Len(tout.sent) = maxChars
       /\ tout.sent = Prefix(tout.assembled, Len(tout.assembled) - Overage)
       /\ Prefix(tout.sent, SectionStart(i)) = Prefix(tout.assembled, SectionStart(i))

C2_Witness ==
  /\ tout.op = "ask"
  /\ OverBudget
  /\ MarkerIndex > -1
  /\ SectionLen(MarkerIndex) > Overage
  /\ Len(tout.sent) = Len(tout.assembled) - Overage
  /\ Len(tout.sent) < Len(tout.assembled)

\* C3 (as claimed): on every path, when the candidate text exceeds the
\* budget, no character of the prompt/refinement body is removed while a
\* character of the context section remains.
C3_ContextEvictedFirst ==
  (tout.op # "none" /\ OverBudget /\ BodyCharRemoved) => ~ContextCharRemains

\* C5: over budget without any "Additional Context:" heading, the result is
\* the prefix of the candidate text whose length is the budget.
C5_NoHeadingCutToBudget ==
  (tout.op = "ask" /\ OverBudget /\ MarkerIndex = -1)
  => (tout.sent = Prefix(tout.assembled, maxChars) /\ Len(tout.sent) = maxChars)

C5_Witness ==
  /\ tout.op = "ask"
  /\ OverBudget
  /\ MarkerIndex = -1
  /\ Len(tout.sent) = maxChars

\* C6: truncation never increases length: the output is no longer than the
\* larger of the budget and the text without its context section, and it is
\* a prefix of the candidate text.
C6_NeverLonger ==
  tout.op # "none"
  => /\ Len(tout.sent) <= Max(maxChars, Len(NoContextText))
     /\ Len(tout.sent) <= Len(tout.assembled)
     /\ tout.sent = Prefix(tout.assembled, Len(tout.sent))

C6_Witness ==
  /\ tout.op = "ask"
  /\ OverBudget
  /\ tout.ctxFrom > 0
  /\ Len(tout.sent) < Len(tout.assembled)
  /\ Len(tout.sent) = maxChars

\* Example 4: a 15-character prompt, 30 characters of context, budget 20
Example4 ==
  /\ tout.op = "ask"
  /\ maxChars = 20
  /\ tin.body = Rep("p", 15)
  /\ Len(tin.ctx) = 30

Contains(s, sub) == Index(s, sub) > -1

\* the texts of a sequence, one after the other
RECURSIVE Flatten(_)
Flatten(texts) == IF texts = <<>> THEN <<>> ELSE Head(texts) \o Flatten(Tail(texts))

\* prompt.txt of the session directory t
SessionPrompt(t) == readFileIfExists(sessions[t], "prompt.txt")

\* the session directory t holds the text in its prompt or in its context
SessionHolds(t, text) ==
  \/ Contains(SessionPrompt(t), text)
  \/ Contains(readFileIfExists(sessions[t], "context.txt"), text)

\* the prompt the last ask assembled from its input and the context it loaded
Assembled == askPrompt(last.base, last.pending)

\* C4: when the assembled prompt is no longer than the budget, the text
\* passed to the completion call and the stored session prompt are exactly
\* the assembled text.
C4_WithinBudgetUntouched ==
  (last.op \in {"ask", "iask"} /\ last.called /\ Len(Assembled) <= maxChars)
  => /\ last.sent = Assembled
     /\ last.stored # 0 => SessionPrompt(last.stored) = Assembled

C4_Witness ==
  /\ last.op = "ask"
  /\ maxTokens = SmallMaxTokens
  /\ last.base # <<>>
  /\ Len(Assembled) <= maxChars
  /\ last.stored # 0
  /\ SessionPrompt(last.stored) = last.base

\* C8 (as claimed): the context added by "ask context <command>" right
\* before an ask is part of the prompt of that ask (when the prompt with
\* the entry fits the budget), whichever sessions exist.
C8_ContextReachesNextAsk ==
  (/\ last.op = "ask"
   /\ last.called
   /\ last.prevOp = "context"
   /\ last.prevAdded # <<>>
   /\ Len(last.base) + Len(AskContextHeading) + Len(last.prevAdded) <= maxChars)
  => Contains(last.sent, last.prevAdded)

\* the content of the pending file before the last operation: only a
\* one-shot ask changes the file
PendingFileBefore ==
  IF last.op = "ask" THEN last.pending ELSE loadPendingContext(pendingFile)

\* C9 (as claimed): once an operation has created a session (and cut
\* nothing from its prompt), the pending file is empty and the entries it
\* held are in that session.
C9_PendingFlushedIntoNewSession ==
  (last.stored # 0 /\ Len(last.sent) < maxChars)
  => /\ pendingFile = <<>>
     /\ PendingFileBefore # <<>> => SessionHolds(last.stored, PendingFileBefore)

\* C10: a one-shot ask without prior session that finds pending context
\* (within budget, completion answered, session stored) stores a prompt that
\* ends with the "Additional Context:" section of all entries in the order
\* they were added, and leaves no pending file; an ask that follows an ask
\* loads no context and sends its prompt without a context section.
C10_PendingConsumedOnce ==
  /\ (/\ last.op = "ask"
      /\ ~last.hadSession
      /\ last.pending # <<>>
      /\ Len(Assembled) <= maxChars
      /\ last.stored # 0)
     => /\ SessionPrompt(last.stored)
             = last.base \o AskContextHeading \o Flatten(arrivals)
        /\ pendingFile = <<>>
  /\ (last.op = "ask" /\ last.prevOp = "ask")
     => /\ pendingFile = <<>>
        /\ last.pending = <<>>
        /\ (last.called /\ Len(last.base) <= maxChars) => last.sent = last.base

\* a second ask right after an ask that stored two pending entries
C10_Witness ==
  /\ last.op = "ask"
  /\ last.prevOp = "ask"
  /\ last.stored # 0
  /\ Len(arrivals) = 2
  /\ SessionPrompt(last.stored) = last.base
  /\ \E t \in DOMAIN sessions :
       SessionPrompt(t) = last.base \o AskContextHeading \o Flatten(arrivals)

(***************************************************************************)
(* The command extraction harness: extractCommand and extractCommands are  *)
(* applied to answers built from a small alphabet of lines, and to the     *)
(* answers of the documented examples.                                     *)
(***************************************************************************)
\* the lines of an answer explored by the extraction harness
MaxAnswerLines == 4

\* a fence line that is indented and names a language
FenceInfoLine == <<" ">> \o Fence \o <<"s">>

\* a line with the "$ " marker after leading space, and with trailing space
DollarLine == <<" ", "$", " ", "d", " ">>

PlainLine == <<"b">>

CommentLine == <<"#", " ", "c">>

BlankLine == <<" ">>

\* a line that holds "$ " but does not start with it
MidDollarLine == <<"x", " ", "$", " ", "e">>

AnswerLines ==
  {Fence, FenceInfoLine, DollarLine, PlainLine, CommentLine, BlankLine, MidDollarLine}

\* the lines joined by "\n"
RECURSIVE JoinLines(_)
JoinLines(ls) ==
  IF ls = <<>> THEN <<>>
  ELSE IF Len(ls) = 1 THEN ls[1]
  ELSE ls[1] \o <<"\n">> \o JoinLines(Tail(ls))

\* "Do this:", a block with the lines "$ ls -la" and "echo done", and a final newline
Example1Lines ==
  << <<"D","o"," ","t","h","i","s",":">>,
     Fence,
     <<"$"," ","l","s"," ","-","l","a">>,
     <<"e","c","h","o"," ","d","o","n","e">>,
     Fence,
     <<>> >>

\* "Run $ rm -rf /tmp/x to clean up."
Example2Lines ==
  << <<"R","u","n"," ","$"," ","r","m"," ","-","r","f"," ","/","t","m","p","/","x"," ",
       "t","o"," ","c","l","e","a","n"," ","u","p",".">> >>

\* a "$ " line, a block, a second block and a "$ " line after them
TwoBlockLines ==
  <<DollarLine, Fence, PlainLine, Fence, FenceInfoLine, CommentLine, DollarLine, Fence,
    DollarLine>>

ParseLineSeqs ==
  UNION {[1..n -> AnswerLines] : n \in 0..MaxAnswerLines}
    \cup {Example1Lines, Example2Lines, TwoBlockLines}

\* an answer of the harness: its lines and the text they make
ParseInputs == {[lines |-> ls, answer |-> JoinLines(ls)] : ls \in ParseLineSeqs}

NoParse == [op |-> "none", result |-> <<>>]

ParseInit ==
  /\ SysInit
  /\ maxTokens = DefaultMaxTokens
  /\ tin \in ParseInputs
  /\ tout = NoParse

\* extractCommand(answer)
ParseFirst ==
  /\ tout.op = "none"
  /\ tout' = [op |-> "extractCommand", result |-> extractCommand(tin.answer)]
  /\ UNCHANGED <<sysVars, maxTokens, tin>>

\* extractCommands(answer)
ParseAll ==
  /\ tout.op = "none"
  /\ tout' = [op |-> "extractCommands", result |-> extractCommands(tin.answer)]
  /\ UNCHANGED <<sysVars, maxTokens, tin>>

ParseNext ==
  \/ ParseFirst
  \/ ParseAll

SpecParse == ParseInit /\ [][ParseNext]_vars

(***************************************************************************)
(* Command extraction properties, stated on the lines of the answer.       *)
(***************************************************************************)
\* the line toggles the fenced-block state
IsFence(l) == HasPrefix(TrimSpace(l), Fence)

\* the trimmed line starts with "$ "
IsDollar(l) == HasPrefix(TrimSpace(l), DollarMarker)

FenceIndexes(ls) == {k \in 1..Len(ls) : IsFence(ls[k])}

\* the least element of a non-empty set of indexes
Least(S) == CHOOSE k \in S : \A j \in S : k <= j

\* a completed block exists when two fence lines exist
HasCompletedBlock(ls) == Cardinality(FenceIndexes(ls)) >= 2

\* the lines between the first two fence lines
FirstBlockLines(ls) ==
  LET open  == Least(FenceIndexes(ls))
      close == Least(FenceIndexes(ls) \ {open})
  IN  SubSeq(ls, open + 1, close - 1)

\* line k lies outside every block, completed or not
OutsideBlocks(ls, k) ==
  /\ ~IsFence(ls[k])
  /\ Cardinality({j \in FenceIndexes(ls) : j < k}) % 2 = 0

\* line k lies inside a block that is closed further down
InCompletedBlock(ls, k) ==
  /\ ~IsFence(ls[k])
  /\ Cardinality({j \in FenceIndexes(ls) : j < k}) % 2 = 1
  /\ \E j \in FenceIndexes(ls) : j > k

\* the "$ " lines outside every block
OutsideDollars(ls) == {k \in 1..Len(ls) : OutsideBlocks(ls, k) /\ IsDollar(ls[k])}

\* C11 (as claimed): with a completed fenced block, extractCommand returns
\* the trimmed, newline-joined content of the first completed block, an
\* empty block included.
C11_FirstBlockReturned ==
  (tout.op = "extractCommand" /\ HasCompletedBlock(tin.lines))
  => tout.result = TrimSpace(JoinLines(FirstBlockLines(tin.lines)))

\* C12 (as claimed): without a completed fenced block, extractCommand
\* returns the first "$ " line outside every block, marker stripped, and
\* nothing from the lines of an unterminated block.
C12_FallbackOutsideBlocksOnly ==
  (tout.op = "extractCommand" /\ ~HasCompletedBlock(tin.lines))
  => tout.result =
       IF OutsideDollars(tin.lines) = {} THEN <<>>
       ELSE TrimPrefix(TrimSpace(tin.lines[Least(OutsideDollars(tin.lines))]),
                       DollarMarker)

\* C13: extractCommand returns "" when the answer has no completed fenced
\* block and no line whose trimmed content starts with "$ "; Example 2 is
\* such an answer.
C13_NothingFound ==
  /\ (/\ tout.op = "extractCommand"
      /\ ~HasCompletedBlock(tin.lines)
      /\ \A k \in 1..Len(tin.lines) : ~IsDollar(tin.lines[k]))
     => tout.result = <<>>
  /\ (tout.op = "extractCommand" /\ tin.lines = Example2Lines) => tout.result = <<>>

C13_Witness ==
  /\ tout.op = "extractCommand"
  /\ tin.lines = Example2Lines
  /\ Contains(tin.answer, DollarMarker)
  /\ tout.result = <<>>

\* C14 (as claimed): in Example 1 extractCommands returns "ls -la" and
\* "echo done".
C14_Example1MarkerStripped ==
  (tout.op = "extractCommands" /\ tin.lines = Example1Lines)
  => tout.result = << <<"l","s"," ","-","l","a">>, Example1Lines[4] >>

\* C14 (amended): in Example 1 extractCommands returns the two block lines
\* as they are, "$ ls -la" and "echo done": the marker is kept inside a block.
C14_Example1BlockLinesKept ==
  (tout.op = "extractCommands" /\ tin.lines = Example1Lines)
  => tout.result = <<Example1Lines[3], Example1Lines[4]>>

C14_Witness ==
  /\ tout.op = "extractCommands"
  /\ tin.lines = Example1Lines
  /\ Len(tout.result) = 2
  /\ HasPrefix(tout.result[1], DollarMarker)

\* the command line k contributes, as a list of none or one
Contribution(ls, k) ==
  LET trimmed == TrimSpace(ls[k]) IN
  IF InCompletedBlock(ls, k) /\ trimmed # <<>> /\ ~HasPrefix(trimmed, <<"#">>)
  THEN <<trimmed>>
  ELSE IF OutsideBlocks(ls, k) /\ IsDollar(ls[k])
  THEN <<TrimPrefix(trimmed, DollarMarker)>>
  ELSE <<>>

\* the contributions of the lines k..Len(ls), in document order
RECURSIVE ContributionsFrom(_, _)
ContributionsFrom(ls, k) ==
  IF k > Len(ls) THEN <<>> ELSE Contribution(ls, k) \o ContributionsFrom(ls, k + 1)

\* C15: extractCommands returns, in document order, one command per
\* non-blank, non-comment line of each completed block and one command
\* (marker stripped) per "$ " line outside every block; fence lines and the
\* lines after an unterminated opening fence give none.
C15_AllCommandsReference ==
  tout.op = "extractCommands" => tout.result = ContributionsFrom(tin.lines, 1)

C15_Witness ==
  /\ tout.op = "extractCommands"
  /\ tin.lines = TwoBlockLines
  /\ Len(tout.result) = 4

(***************************************************************************)
(* The session store harness: storeSession is applied to a sessions        *)
(* directory that is empty or holds one session, at a later second or in   *)
(* the second of that session, and getLastSession reads the result.        *)
(***************************************************************************)
\* the length of the texts stored by the session store harness
MaxTextLen == 2

StoreChars == {" ", "\n", "a"}

\* the prompts and responses: texts with and without surrounding white space
StoreTexts == UNION {[1..n -> StoreChars] : n \in 0..MaxTextLen}

\* the session written before the store under test
EarlierSession ==
  WriteFile(WriteFile(WriteFile(EmptyDir, "prompt.txt", <<"p">>),
                      "response.txt", <<"s">>),
            "original_prompt.txt", <<"o">>)

\* the second of the earlier session
EarlierSecond == 1

\* ~/.ask/sessions before the store under test
StoreDirs == {<<>>, [t \in {EarlierSecond} |-> EarlierSession]}

StoreInputs ==
  [dirs : StoreDirs, now : {EarlierSecond, EarlierSecond + 1}, prompt : StoreTexts,
   answer : StoreTexts, original : {<<"o">>, <<>>}, outcome : StoreOutcomes]

NoStore == [op |-> "none", dirs |-> <<>>, path |-> 0, ls |-> getLastSession(<<>>)]

StoreInit ==
  /\ SysInit
  /\ maxTokens = DefaultMaxTokens
  /\ tin \in StoreInputs
  /\ tout = NoStore

\* storeSession(prompt, answer, originalPrompt), then getLastSession()
StoreAndRead ==
  /\ tout.op = "none"
  /\ LET st == storeSession(tin.dirs, tin.now, tin.prompt, tin.answer, tin.original,
                            tin.outcome)
     IN  tout' = [op |-> "storeSession", dirs |-> st.dirs, path |-> st.path,
                  ls |-> getLastSession(st.dirs)]
  /\ UNCHANGED <<sysVars, maxTokens, tin>>

\* getLastSession() alone
ReadOnly ==
  /\ tout.op = "none"
  /\ tout' = [op |-> "getLastSession", dirs |-> tin.dirs, path |-> 0,
              ls |-> getLastSession(tin.dirs)]
  /\ UNCHANGED <<sysVars, maxTokens, tin>>

StoreNext ==
  \/ StoreAndRead
  \/ ReadOnly

SpecStore == StoreInit /\ [][StoreNext]_vars

(***************************************************************************)
(* Session store properties.                                               *)
(***************************************************************************)
\* create is requested for a second whose session exists
Collision == tout.op = "storeSession" /\ tin.now \in DOMAIN tin.dirs

\* C18: a create requested for a second whose session already exists fails
\* (no path is returned) and leaves the sessions directory, and with it the
\* prompt, response and original prompt of the existing session, as it was.
C18_NoSilentOverwrite ==
  Collision =>
    /\ tout.path = 0
    /\ tout.dirs = tin.dirs
    /\ tout.dirs[tin.now]["prompt.txt"] = <<"p">>
    /\ tout.dirs[tin.now]["response.txt"] = <<"s">>
    /\ tout.dirs[tin.now]["original_prompt.txt"] = <<"o">>

C18_Witness ==
  /\ Collision
  /\ tin.outcome = "ok"
  /\ tin.prompt = <<"a">>
  /\ tout.path = 0

\* C19: after a successful create, reading the most recent session returns
\* exactly the prompt and the response that were written, and the path of
\* the new session.
C19_RoundTrip ==
  (tout.op = "storeSession" /\ tout.path # 0) =>
    /\ ~tout.ls.err
    /\ tout.ls.prompt = tin.prompt
    /\ tout.ls.response = tin.answer
    /\ tout.ls.path = tout.path

C19_Witness ==
  /\ tout.op = "storeSession"
  /\ tout.path # 0
  /\ tin.dirs # <<>>
  /\ tin.prompt = <<" ", "a">>
  /\ tin.answer = <<"a", "\n">>
  /\ tout.ls.prompt = <<" ", "a">>

(***************************************************************************)
(* Properties of an interactive run.                                       *)
(***************************************************************************)
\* original_prompt.txt of the session directory
OriginalOf(dir) == readFileIfExists(dir, "original_prompt.txt")

\* C16: in an interactive run every session that is created stores as its
\* original prompt the text sent by the first answered ask of the run, and
\* no step removes a session or changes the original prompt of a session
\* that exists.
C16_OriginalPromptFixed ==
  [][/\ \A t \in DOMAIN sessions :
          /\ t \in DOMAIN sessions'
          /\ OriginalOf(sessions'[t]) = OriginalOf(sessions[t])
     /\ \A t \in DOMAIN sessions' \ DOMAIN sessions :
          /\ last'.first # <<>>
          /\ "original_prompt.txt" \in DOMAIN sessions'[t]
          /\ OriginalOf(sessions'[t]) = last'.first]_vars

\* a second ask with another prompt has stored its session
C16_Witness ==
  /\ last.op = "iask"
  /\ last.stored # 0
  /\ last.first # <<>>
  /\ last.sent # last.first
  /\ SessionPrompt(last.stored) = last.sent
  /\ OriginalOf(sessions[last.stored]) = last.first

\* C17 (as claimed): after "run <N>" has executed a command, run_output.txt
\* of the current session is the output of that command, also when the
\* output is empty.
C17_RunOutputIsLastRun ==
  (last.op = "irun" /\ last.ran # <<>> /\ currentSessionPath # 0)
  => readFileIfExists(sessions[currentSessionPath], "run_output.txt") = last.output

\* C20: "run <N>" with N not numeric, below 1 or above the number of cached
\* commands is rejected with a message and executes nothing, creates and
\* writes nothing and leaves the prompt, the answer, the cached commands
\* and the current session as they were; with a valid N the N-th cached
\* command (counted from 1) is the one handed over for execution, and it
\* is executed as it is unless the user edits it.
C20_RunIndexChecked ==
  [][(last'.op = "irun" /\ nops' = nops + 1) =>
       LET arg == last'.arg IN
       IF ~arg.numeric \/ arg.n < 1 \/ arg.n > Len(currentCommands)
       THEN /\ last'.report = (IF Len(currentCommands) = 0
                               THEN "No commands available to run."
                               ELSE "Invalid command number.")
            /\ last'.ran = <<>>
            /\ last'.stored = 0
            /\ UNCHANGED <<sessions, cwdFiles, pendingFile, currentPrompt, currentAnswer,
                           currentCommands, currentSessionPath, originalPrompt,
                           pendingContext>>
       ELSE /\ last'.report = ""
            /\ last'.base = currentCommands[arg.n]
            /\ last'.edited \/ last'.ran = currentCommands[arg.n]
            /\ UNCHANGED <<currentPrompt, currentAnswer, currentCommands>>]_vars

\* "run 5" with two cached commands
C20_Witness ==
  /\ last.op = "irun"
  /\ last.arg = [numeric |-> TRUE, n |-> 5]
  /\ Len(currentCommands) = 2
  /\ last.report = "Invalid command number."
  /\ currentAnswer # <<>>

(***************************************************************************)
(* Properties of the controller states and of failed completions.          *)
(***************************************************************************)
\* C21 (as claimed): "run <N>" executes a command only in AnswerReady, that
\* is after an answered ask or refine with no prompt command since.
C21_RunOnlyInAnswerReady ==
  (last.op = "irun" /\ last.ran # <<>>) => last.ready

\* the locals of handleInteractive and the session directories
Controller ==
  <<currentPrompt, pendingContext, currentAnswer, currentCommands, currentSessionPath,
    originalPrompt, sessions>>

\* C22 (as claimed): a failed completion call of an interactive ask or
\* refine leaves the prompt, the pending context buffer, the answer, the
\* cached commands, the current session and the original prompt as they
\* were, and creates no session.
C22_FailedCallKeepsState ==
  [][(/\ last'.op \in {"iask", "irefine"}
      /\ nops' = nops + 1
      /\ last'.called
      /\ ~last'.answered)
     => UNCHANGED Controller]_vars

\* C23 (as claimed): an empty completion is treated like a failed call: no
\* session is stored with an empty response and no empty answer is taken.
C23_EmptyResponseAbandoned ==
  /\ (last.op \in {"iask", "irefine"} /\ last.stored # 0)
     => readFileIfExists(sessions[last.stored], "response.txt") # <<>>
  /\ (last.op \in {"iask", "irefine"} /\ last.answered) => currentAnswer # <<>>

(***************************************************************************)
(* Properties of the empty prompt and of the context accumulator.          *)
(***************************************************************************)
\* C24 (as claimed): a one-shot ask with an empty base prompt makes no
\* completion call, creates no session and leaves the pending file as it was.
C24_EmptyAskChangesNothing ==
  (last.op = "ask" /\ last.base = <<>>)
  => /\ ~last.called
     /\ last.stored = 0
     /\ loadPendingContext(pendingFile) = last.pending

\* the text s ends with the text t
EndsWith(s, t) == Len(s) >= Len(t) /\ SubSeq(s, Len(s) - Len(t) + 1, Len(s)) = t

\* context.txt of the session directory
ContextOf(dir) == readFileIfExists(dir, "context.txt")

\* the context store the last context command is routed to: context.txt of
\* the current session if there is one, else the pending file (one-shot) or
\* the pending buffer (interactive)
RoutedStore ==
  IF last.op = "context"
  THEN IF last.hadSession THEN ContextOf(sessions[Latest(DOMAIN sessions)])
       ELSE loadPendingContext(pendingFile)
  ELSE IF currentSessionPath # 0 THEN ContextOf(sessions[currentSessionPath])
       ELSE pendingContext

\* C25 (as claimed): the entry of a context command that failed is recorded
\* in the store it is routed to, on the one-shot and the interactive paths.
C25_FailedContextRecorded ==
  (last.op \in {"context", "icontext"} /\ last.tried # <<>> /\ last.added = <<>>)
  => EndsWith(RoutedStore, last.tried)

\* the content of the pending file
PendingText == IF pendingFile = <<>> THEN <<>> ELSE pendingFile[1]

C27_CacheMatchesAnswer ==
  /\ [](ipc = "loop" => currentCommands = extractCommands(currentAnswer))
  /\ [][(ipc' = "loop" /\ nops' = nops + 1) =>
          IF last'.op \in {"iask", "irefine"} /\ last'.answered
          THEN currentCommands' = extractCommands(currentAnswer')
          ELSE UNCHANGED <<currentCommands, currentAnswer>>]_vars

\* a refine answered without commands, after an answer with commands
C27_Witness ==
  /\ last.op = "irefine"
  /\ last.answered
  /\ Contains(last.sent, <<"$", " ", "c">>)
  /\ currentAnswer = <<>>
  /\ currentCommands = <<>>

\* response.txt of the session directory t
SessionResponse(t) == readFileIfExists(sessions[t], "response.txt")

\* C28 (as claimed): the session an interactive command stores holds the
\* current answer as response and, as prompt, the text that was sent in the
\* request that gave this answer.
C28_StoredPromptIsSentText ==
  (last.op \in {"iask", "irefine", "irun"} /\ last.stored # 0)
  => /\ SessionResponse(last.stored) = currentAnswer
     /\ SessionPrompt(last.stored) = last.answerSent

\* C29: an interactive ask with an empty prompt warns and does nothing: no
\* completion call, no session, and the prompt, the pending buffer, the
\* answer, the cached commands and the current session stay as they are.
C29_EmptyPromptAskIsNoOp ==
  [][(last'.op = "iask" /\ nops' = nops + 1 /\ currentPrompt = <<>>) =>
       /\ last'.report = "No prompt set. Use 'prompt' to set one."
       /\ ~last'.called
       /\ last'.stored = 0
       /\ UNCHANGED Controller]_vars

\* an ask with an empty prompt while the pending buffer holds an entry
C29_Witness ==
  /\ last.op = "iask"
  /\ ~last.called
  /\ currentPrompt = <<>>
  /\ pendingContext # <<>>

\* C30: an interactive refine without an answer warns and does nothing: no
\* editor, no completion call, no session, and the controller state stays
\* as it is; so a refine stores a session only after an answered ask.
C30_RefineWithoutAnswerIsNoOp ==
  /\ []((last.op = "irefine" /\ last.called) => last.first # <<>>)
  /\ [][(last'.op = "irefine" /\ nops' = nops + 1 /\ currentAnswer = <<>>) =>
          /\ last'.report = "No answer to refine. Use 'ask' first."
          /\ last'.base = <<>>
          /\ ~last'.called
          /\ last'.stored = 0
          /\ UNCHANGED Controller]_vars

\* a refine with a prompt set and no answer
C30_Witness ==
  /\ last.op = "irefine"
  /\ ~last.called
  /\ currentPrompt # <<>>
  /\ currentAnswer = <<>>
  /\ last.first = <<>>

\* ---------------------------------------------------------------------
\* Lookup after a failed storeSession, lost pending context, and the place
\* of the run output

\* the store a failed storeSession leaves behind
PartialStore == tout.op = "storeSession" /\ tout.path = 0 /\ tin.dirs # <<>>

\* C39: session creation is all-or-nothing for the lookup: when storeSession
\* fails, getLastSession still answers with the last complete session, as
\* it did before the attempt.
C39_FailedCreateInvisible ==
  PartialStore => tout.ls = getLastSession(tin.dirs)

\* C37: pending context is never discarded without being stored: a one-shot
\* ask that read pending entries and stored no session leaves them in the
\* pending file for the next ask.
C37_PendingKeptUnlessStored ==
  (last.op = "ask" /\ last.pending # <<>> /\ last.stored = 0) =>
    loadPendingContext(pendingFile) = last.pending

\* C36: the output of an executed command is only ever written below an
\* existing session directory: no run_output.txt appears under the empty
\* session path, which is the working directory.
C36_RunOutputUnderSession ==
  "run_output.txt" \notin DOMAIN cwdFiles

\* ---------------------------------------------------------------------
\* The budget on every path, the context log, and the frame of the
\* interactive context command

\* C35: on every path (one-shot ask and refine, interactive ask and refine)
\* the text passed to the completion call is at most maxTokens *
\* charsPerToken characters long, and so is the prompt of the session the
\* operation stores.
C35_BudgetOnEveryPath ==
  (last.op \in {"ask", "refine", "iask", "irefine"} /\ last.called) =>
    /\ Len(last.sent) <= maxChars
    /\ last.stored # 0 =>
         /\ SessionPrompt(last.stored) = last.sent
         /\ Len(SessionPrompt(last.stored)) <= maxChars

\* an interactive refine whose prompt was cut to the budget and stored
C35_Witness ==
  /\ last.op = "irefine"
  /\ last.called
  /\ maxTokens = SmallMaxTokens
  /\ Len(last.sent) = maxChars
  /\ last.stored # 0
  /\ Len(SessionPrompt(last.stored)) = maxChars

\* C34: the context log of a session is append-only: every step keeps each
\* session, and leaves its context.txt as it was or extends it at the end by
\* the entry of the context command the step performs.
C34_ContextLogAppendOnly ==
  [][\A t \in DOMAIN sessions :
       /\ t \in DOMAIN sessions'
       /\ \/ ContextOf(sessions'[t]) = ContextOf(sessions[t])
          \/ /\ last'.op \in {"context", "icontext"}
             /\ ContextOf(sessions'[t]) = ContextOf(sessions[t]) \o last'.tried]_vars

\* a second entry was appended to the context log of a session
C34_Witness ==
  /\ last.op \in {"context", "icontext"}
  /\ last.tried # <<>>
  /\ \E t \in DOMAIN sessions :
       /\ EndsWith(ContextOf(sessions[t]), last.tried)
       /\ Len(ContextOf(sessions[t])) > Len(last.tried)

\* the files of the session directory other than context.txt
OtherFiles(dir) == [n \in DOMAIN dir \ {"context.txt"} |-> dir[n]]

\* C31: the interactive context command is accepted in every state of the
\* loop, and changes nothing but the context accumulator, which is
\* context.txt of the current session or the pending buffer: the held
\* prompt, the answer, the cached commands, the current session and the
\* original prompt stay as they are.
C31_ContextChangesOnlyAccumulator ==
  /\ [](\A sh \in ShellResults :
          (ipc = "loop" /\ nops < MaxOps /\ nctx < MaxContext) =>
            ENABLED interactiveContext(ContextCommand(nctx), sh))
  /\ [][(last'.op = "icontext" /\ nops' = nops + 1) =>
          /\ UNCHANGED <<currentPrompt, currentAnswer, currentCommands,
                         currentSessionPath, originalPrompt, pendingFile, cwdFiles>>
          /\ DOMAIN sessions' = DOMAIN sessions
          /\ \A t \in DOMAIN sessions :
               /\ OtherFiles(sessions'[t]) = OtherFiles(sessions[t])
               /\ t # currentSessionPath => sessions'[t] = sessions[t]
          /\ currentSessionPath # 0 => UNCHANGED pendingContext]_vars

\* a context entry added while an answer with cached commands is current
C31_Witness ==
  /\ last.op = "icontext"
  /\ last.added # <<>>
  /\ currentAnswer # <<>>
  /\ currentCommands # <<>>
  /\ currentSessionPath # 0
  /\ EndsWith(ContextOf(sessions[currentSessionPath]), last.added)

\* ---------------------------------------------------------------------
\* A failed session store after an answered completion call

\* the completion call of the last operation succeeded and storeSession failed
AnsweredUnstored ==
  /\ last.op \in {"ask", "refine", "iask", "irefine"}
  /\ last.called
  /\ ~last.reply.err
  /\ last.stored = 0

\* C32: a failure of storeSession does not abort an ask or a refine: when
\* the completion call succeeded the answer is printed, and in the
\* interactive loop it is the current answer with its commands cached,
\* although no session is current.
C32_StoreFailureKeepsAnswer ==
  AnsweredUnstored =>
    /\ last.answered
    /\ last.shown = askChatGPT(last.reply.content)
    /\ last.op \in {"iask", "irefine"} =>
         /\ currentAnswer = askChatGPT(last.reply.content)
         /\ currentCommands = extractCommands(askChatGPT(last.reply.content))
         /\ currentSessionPath = 0
         /\ last.ready

\* an interactive ask answered with a command in a second that already
\* holds a session
C32_Witness ==
  /\ AnsweredUnstored
  /\ last.op = "iask"
  /\ currentAnswer # <<>>
  /\ currentCommands # <<>>
  /\ clock \in DOMAIN sessions

\* ---------------------------------------------------------------------
\* The life of the sessions

\* the step is an ask or a refine whose completion call succeeded
AnsweredStep ==
  /\ nops' = nops + 1
  /\ last'.op \in {"ask", "refine", "iask", "irefine"}
  /\ last'.called
  /\ ~last'.reply.err

\* the step creates exactly the session of this second, and getLastSession
\* returns it afterwards
CreatesOneSession ==
  /\ DOMAIN sessions' = DOMAIN sessions \cup {clock}
  /\ clock \notin DOMAIN sessions
  /\ last'.stored = clock
  /\ LET ls == getLastSession(sessions')
     IN  /\ ~ls.err
         /\ ls.path = clock
         /\ ls.prompt = last'.sent
         /\ ls.response = last'.shown

\* no step removes a session directory
NoSessionDeleted == DOMAIN sessions \subseteq DOMAIN sessions'

\* on an empty store getLastSession fails, and a one-shot refine makes no
\* completion call and stores nothing
RefineOnEmptyStore ==
  (nops' = nops + 1 /\ last'.op = "refine" /\ DOMAIN sessions = {}) =>
    /\ getLastSession(sessions).err
    /\ ~last'.called
    /\ sessions' = sessions

Invocations == {1, 2, 3}

\* what is run: "ask p" or "ask context <cmd>"
InvocationKinds == {"ask", "context"}

\* the entry a one-shot context command left in the pending file before
PendingBefore == contextEntry(ContextCommand(0), <<"o">>)

\* an invocation that has not started: where it is, the pending context it
\* read, the session its context command is routed to, the session it stored
NoInvocation == [pc |-> "start", pending |-> <<>>, route |-> 0, stored |-> 0]

\* no session is stored yet, and the pending file is missing or holds the
\* entry of an earlier "ask context c"
RaceInit ==
  /\ clock = 1
  /\ sessions = <<>>
  /\ pendingFile \in {<<>>, appendToPendingContext(<<>>, ContextCommand(0), <<"o">>)}
  /\ cwdFiles = <<>>
  /\ ipc = "off"
  /\ currentPrompt = <<>>
  /\ currentAnswer = <<>>
  /\ currentSessionPath = 0
  /\ originalPrompt = <<>>
  /\ pendingContext = <<>>
  /\ currentCommands = <<>>
  /\ nctx = IF pendingFile = <<>> THEN 0 ELSE 1
  /\ arrivals = <<>>
  /\ nops = 0
  /\ last = NoOp
  /\ maxTokens = DefaultMaxTokens
  /\ tin \in [kind : [Invocations -> InvocationKinds]]
  /\ tout = [op |-> "race", inv |-> [i \in Invocations |-> NoInvocation],
             appended |-> IF pendingFile = <<>> THEN <<>> ELSE <<PendingBefore>>,
             interleaved |-> FALSE]

\* another invocation is between its first and its last step
Overlaps(i) ==
  \E j \in Invocations \ {i} : tout.inv[j].pc \notin {"start", "done"}

\* invocation i takes a step to 'rec'
Step(i, rec) ==
  [tout EXCEPT !.inv[i] = rec, !.interleaved = tout.interleaved \/ Overlaps(i)]

\* handleAsk: pendingContext := loadPendingContext()
askLoad(i) ==
  /\ tin.kind[i] = "ask"
  /\ tout.inv[i].pc = "start"
  /\ tout' = Step(i, [tout.inv[i] EXCEPT
                        !.pc = "loaded", !.pending = loadPendingContext(pendingFile)])
  /\ UNCHANGED <<sysVars, maxTokens, tin>>

\* handleAsk: if pendingContext != "" { clearPendingContext() }
askClear(i) ==
  /\ tin.kind[i] = "ask"
  /\ tout.inv[i].pc = "loaded"
  /\ pendingFile' = IF tout.inv[i].pending # <<>> THEN clearPendingContext(pendingFile)
                    ELSE pendingFile
  /\ tout' = Step(i, [tout.inv[i] EXCEPT !.pc = "cleared"])
  /\ UNCHANGED <<maxTokens, clock, sessions, cwdFiles, ipc, currentPrompt,
                 currentAnswer, currentSessionPath, originalPrompt, pendingContext,
                 currentCommands, nctx, arrivals, nops, last, tin>>

\* handleAsk: the prompt is assembled, cut, sent, and the session is stored
askComplete(i, input, up) ==
  /\ tin.kind[i] = "ask"
  /\ tout.inv[i].pc = "cleared"
  /\ LET prompt == askPrompt(input, tout.inv[i].pending)
         sent   == truncateAsk(prompt, maxChars)
         answer == askChatGPT(up.content)
         st     == storeSession(sessions, clock, sent, answer, sent, "ok")
     IN  IF up.err
         THEN /\ tout' = Step(i, [tout.inv[i] EXCEPT !.pc = "done"])
              /\ UNCHANGED sessions
         ELSE /\ tout' = Step(i, [tout.inv[i] EXCEPT !.pc = "done", !.stored = st.path])
              /\ sessions' = st.dirs
  /\ UNCHANGED <<maxTokens, clock, pendingFile, cwdFiles, ipc, currentPrompt,
                 currentAnswer, currentSessionPath, originalPrompt, pendingContext,
                 currentCommands, nctx, arrivals, nops, last, tin>>

\* handleContext: _, _, sessionPath, err := getLastSession()
contextLookup(i) ==
  /\ tin.kind[i] = "context"
  /\ tout.inv[i].pc = "start"
  /\ nctx < MaxContext
  /\ LET ls == getLastSession(sessions)
     IN  tout' = Step(i, [tout.inv[i] EXCEPT
                            !.pc = "routed", !.route = IF ls.err THEN 0 ELSE ls.path])
  /\ UNCHANGED <<sysVars, maxTokens, tin>>

\* handleContext: the command is run and its entry appended to the pending
\* file, or to context.txt of the session found
contextAppend(i, sh) ==
  /\ tin.kind[i] = "context"
  /\ tout.inv[i].pc = "routed"
  /\ nctx < MaxContext
  /\ LET cmdStr == ContextCommand(nctx)
         entry  == contextEntry(cmdStr, sh.output)
         done   == [tout.inv[i] EXCEPT !.pc = "done"]
     IN  IF tout.inv[i].route = 0
         THEN IF sh.err
              THEN /\ tout' = Step(i, done)
                   /\ UNCHANGED <<sessions, pendingFile, nctx>>
              ELSE /\ pendingFile' = appendToPendingContext(pendingFile, cmdStr, sh.output)
                   /\ tout' = [Step(i, done) EXCEPT !.appended = Append(@, entry)]
                   /\ nctx' = nctx + 1
                   /\ UNCHANGED sessions
         ELSE /\ sessions' = appendContext(sessions, tout.inv[i].route, cmdStr, sh.output)
              /\ tout' = Step(i, done)
              /\ nctx' = nctx + 1
              /\ UNCHANGED pendingFile
  /\ UNCHANGED <<maxTokens, clock, cwdFiles, ipc, currentPrompt, currentAnswer,
                 currentSessionPath, originalPrompt, pendingContext, currentCommands,
                 arrivals, nops, last, tin>>

RaceNext ==
  \/ Tick
  \/ \E i \in Invocations : askLoad(i)
  \/ \E i \in Invocations : askClear(i)
  \/ \E i \in Invocations : \E input \in OneShotPrompts, up \in Upstream :
       askComplete(i, input, up)
  \/ \E i \in Invocations : contextLookup(i)
  \/ \E i \in Invocations : \E sh \in ShellResults : contextAppend(i, sh)

SpecRace == RaceInit /\ [][RaceNext]_vars

\* the entries appended to the pending file so far
Appended == {tout.appended[k] : k \in 1..Len(tout.appended)}

\* an entry of the pending file is in the prompts of two sessions
EntryInTwoSessions ==
  \E e \in Appended : \E t, u \in DOMAIN sessions :
    t # u /\ Contains(SessionPrompt(t), e) /\ Contains(SessionPrompt(u), e)

\* an entry of the pending file is gone and no invocation has read it
EntryLost ==
  \E e \in Appended :
    /\ ~Contains(loadPendingContext(pendingFile), e)
    /\ \A i \in Invocations : ~Contains(tout.inv[i].pending, e)

\* C38: the pending file is racy only through the overlap of invocations:
\* as long as no step of an invocation came between the steps of another,
\* no entry is in the prompts of two sessions and no entry is deleted
\* unread; with overlapping invocations both happen (the witness).
C38_PendingFileRaceNeedsOverlap ==
  ~tout.interleaved => (~EntryInTwoSessions /\ ~EntryLost)

\* two asks read the same entry and stored it in two sessions, and an entry
\* appended between the read and the delete of an ask is gone unread
C38_Witness ==
  /\ tout.interleaved
  /\ EntryInTwoSessions
  /\ EntryLost

====
